---- MODULE Spec2Model ----
(***************************************************************************)
(* Computation cache of backend/cache.py: the in-memory LRU backend, the   *)
(* Cache Manager facade, cache-key generation and the memoization          *)
(* decorators.                                                             *)
(*                                                                         *)
(* A Python string is the sequence of its pieces, a piece being one        *)
(* character or a word that holds no separator character; the separators   *)
(* are always pieces of their own, so that concatenation                   *)
(* (f"{namespace}:{key}") and startswith are computed on the sequences.    *)
(* Optional values (None or x) are sequences of length at most one:        *)
(* None is <<>> and x is <<x>>.                                            *)
(***************************************************************************)
EXTENDS Integers, Sequences, FiniteSets, TLC

VARIABLES
    backend,    \* cache_manager.backend: the LRUCache object (its fields)
    now,        \* time.time()
    nOps,       \* history: number of completed Cache Manager operations
    lastOp,     \* history: the last completed Cache Manager operation
    recency,    \* history: physical keys present, by order of last access
    owner,      \* history: physical key -> the (namespace, key) it was set with
    pc,         \* per thread: where its wrapped call stands
    frame,      \* per thread: the locals of the wrapper (call, result)
    log,        \* history: the wrapped calls, in the order they began
    overlap,    \* history: some wrapped call began while another was running
    probe,      \* two argument sets and the keys generate_cache_key gave them
    USE_REDIS,  \* CacheConfig.USE_REDIS
    redis,      \* the Redis server: whether it answers, and its keys
    lock,       \* LRUCache.lock: the thread that holds it, or None
    serial,     \* history: the backend had its operations run one at a time
    heap,       \* the mutable objects of the callers: object -> its content
    stored,     \* history: physical key -> content of the value when it was set
    PREDICTIONS_CACHE,     \* career_roadmap.PREDICTIONS_CACHE
    ENABLE_CACHE_WARMING,  \* CacheConfig.ENABLE_CACHE_WARMING
    warm        \* where a call of warm_cache_for_employee stands

backendVars == <<backend, nOps, lastOp, recency, owner>>
memoVars == <<pc, frame, log, overlap>>
extVars == <<heap, stored, PREDICTIONS_CACHE, ENABLE_CACHE_WARMING, warm>>
otherVars == <<probe, USE_REDIS, lock, serial, extVars>>
vars == <<backend, now, nOps, lastOp, recency, owner, pc, frame, log, overlap,
          probe, USE_REDIS, redis, lock, serial, heap, stored,
          PREDICTIONS_CACHE, ENABLE_CACHE_WARMING, warm>>

---------------------------------------------------------------------------
(* Bounds of the model *)

MaxSize == 2    \* CacheConfig.MEMORY_CACHE_MAX_SIZE of the run
MaxTime == 2    \* the clock runs from 0 to MaxTime
MaxOps  == 4    \* Cache Manager operations per run
MaxCalls == 3   \* wrapped calls per run
MaxLockOps == 3 \* backend operations per run, when taken statement by statement

Threads == {"t1", "t2"}

---------------------------------------------------------------------------
(* Python values *)

None == <<>>

Some(x) == <<x>>

\* Python truthiness of an Optional[int] / Optional[float]: None and 0 are falsy
Truthy(x) == x # None /\ x[1] # 0

\* str.startswith
StartsWith(s, prefix) ==
    /\ Len(prefix) <= Len(s)
    /\ SubSeq(s, 1, Len(prefix)) = prefix

NS_embedding  == <<"embedding">>
NS_role_match == <<"role_match">>

\* the namespaces and keys the operations of Spec are called with
Namespaces == {NS_embedding, NS_role_match}
Keys       == {<<"k1">>, <<"k2">>}
TTLs       == {None, Some(1)}

\* The payload of the n-th operation of a run. The backend never looks into a
\* payload, and a payload of its own for every set tells each stored value
\* from every other one.
Payload(n) == Some(n)

---------------------------------------------------------------------------
(* OrderedDict: a sequence of entries, oldest first *)

KeysOf(c) == {c[i].key : i \in 1..Len(c)}

Contains(c, k) == k \in KeysOf(c)

Entry(c, k) == c[CHOOSE i \in 1..Len(c) : c[i].key = k]

\* del self.cache[k]
Del(c, k) == SelectSeq(c, LAMBDA e : e.key # k)

\* self.cache.move_to_end(k)
MoveToEnd(c, k) == Append(Del(c, k), Entry(c, k))

\* self.cache[k] = (value, expiry): in place when k is present, else at the end
Assign(c, k, value, expiry) ==
    IF Contains(c, k)
    THEN [i \in 1..Len(c) |->
            IF c[i].key = k THEN [key |-> k, value |-> value, expiry |-> expiry]
            ELSE c[i]]
    ELSE Append(c, [key |-> k, value |-> value, expiry |-> expiry])

---------------------------------------------------------------------------
(* class LRUCache *)

LRUCache_init(max_size) ==
    [class |-> "LRUCache", max_size |-> max_size, cache |-> <<>>,
     hits |-> 0, misses |-> 0, evictions |-> 0]

LRUCache_generate_key(namespace, key) == namespace \o <<":">> \o key

\* Mutants of LRUCache.get: a hit that does not refresh the recency order; no
\* expiry check; an expired entry that is reported absent but not deleted
LRUCache_get_NoMoveToEnd(self, t, namespace, key) ==
    LET cache_key == LRUCache_generate_key(namespace, key) IN
    IF Contains(self.cache, cache_key)
    THEN LET e == Entry(self.cache, cache_key)
         IN  IF Truthy(e.expiry) /\ t > e.expiry[1]
             THEN [self |-> [self EXCEPT !.cache = Del(self.cache, cache_key),
                                         !.misses = @ + 1],
                   ret  |-> None]
             ELSE [self |-> [self EXCEPT !.hits = @ + 1], ret |-> e.value]
    ELSE [self |-> [self EXCEPT !.misses = @ + 1], ret |-> None]

LRUCache_get_NoExpiry(self, t, namespace, key) ==
    LET cache_key == LRUCache_generate_key(namespace, key) IN
    IF Contains(self.cache, cache_key)
    THEN [self |-> [self EXCEPT !.cache = MoveToEnd(self.cache, cache_key),
                                !.hits = @ + 1],
          ret  |-> Entry(self.cache, cache_key).value]
    ELSE [self |-> [self EXCEPT !.misses = @ + 1], ret |-> None]

LRUCache_get_KeepExpired(self, t, namespace, key) ==
    LET cache_key == LRUCache_generate_key(namespace, key) IN
    IF Contains(self.cache, cache_key)
    THEN LET moved == MoveToEnd(self.cache, cache_key)
             e     == Entry(moved, cache_key)
         IN  IF Truthy(e.expiry) /\ t > e.expiry[1]
             THEN [self |-> [self EXCEPT !.cache = moved, !.misses = @ + 1],
                   ret  |-> None]
             ELSE [self |-> [self EXCEPT !.cache = moved, !.hits = @ + 1],
                   ret  |-> e.value]
    ELSE [self |-> [self EXCEPT !.misses = @ + 1], ret |-> None]

\* returns the object after the call and the value returned
LRUCache_get(self, t, namespace, key) ==
    LET cache_key == LRUCache_generate_key(namespace, key) IN
    IF Contains(self.cache, cache_key)
    THEN LET moved == MoveToEnd(self.cache, cache_key)
             e     == Entry(moved, cache_key)
         IN  IF Truthy(e.expiry) /\ t > e.expiry[1]
             THEN [self |-> [self EXCEPT !.cache = Del(moved, cache_key),
                                         !.misses = @ + 1],
                   ret  |-> None]
             ELSE [self |-> [self EXCEPT !.cache = moved, !.hits = @ + 1],
                   ret  |-> e.value]
    ELSE [self |-> [self EXCEPT !.misses = @ + 1], ret |-> None]

\* Mutants of LRUCache.set: no eviction; eviction as soon as the map is full
LRUCache_set_NoEvict(self, t, namespace, key, value, ttl) ==
    LET cache_key == LRUCache_generate_key(namespace, key)
        expiry    == IF Truthy(ttl) THEN Some(t + ttl[1]) ELSE None
        moved     == IF Contains(self.cache, cache_key)
                     THEN MoveToEnd(self.cache, cache_key)
                     ELSE self.cache
    IN  [self EXCEPT !.cache = Assign(moved, cache_key, value, expiry)]

LRUCache_set_EvictAtCapacity(self, t, namespace, key, value, ttl) ==
    LET cache_key == LRUCache_generate_key(namespace, key)
        expiry    == IF Truthy(ttl) THEN Some(t + ttl[1]) ELSE None
        moved     == IF Contains(self.cache, cache_key)
                     THEN MoveToEnd(self.cache, cache_key)
                     ELSE self.cache
        added     == Assign(moved, cache_key, value, expiry)
    IN  IF Len(added) >= self.max_size
        THEN [self EXCEPT !.cache = Del(added, Head(added).key),
                          !.evictions = @ + 1]
        ELSE [self EXCEPT !.cache = added]

\* Mutant of LRUCache.set: no move_to_end, an existing key keeps its place
LRUCache_set_InPlace(self, t, namespace, key, value, ttl) ==
    LET cache_key == LRUCache_generate_key(namespace, key)
        expiry    == IF Truthy(ttl) THEN Some(t + ttl[1]) ELSE None
        added     == Assign(self.cache, cache_key, value, expiry)
    IN  IF Len(added) > self.max_size
        THEN [self EXCEPT !.cache = Del(added, Head(added).key),
                          !.evictions = @ + 1]
        ELSE [self EXCEPT !.cache = added]

\* Mutant of LRUCache.set: an entry that has expired is evicted before the
\* oldest one
LRUCache_set_EvictExpiredFirst(self, t, namespace, key, value, ttl) ==
    LET cache_key == LRUCache_generate_key(namespace, key)
        expiry    == IF Truthy(ttl) THEN Some(t + ttl[1]) ELSE None
        moved     == IF Contains(self.cache, cache_key)
                     THEN MoveToEnd(self.cache, cache_key)
                     ELSE self.cache
        added     == Assign(moved, cache_key, value, expiry)
        expired   == SelectSeq(added, LAMBDA e :
                         e.expiry # None /\ t > e.expiry[1])
        victim    == IF expired # <<>> THEN Head(expired) ELSE Head(added)
    IN  IF Len(added) > self.max_size
        THEN [self EXCEPT !.cache = Del(added, victim.key),
                          !.evictions = @ + 1]
        ELSE [self EXCEPT !.cache = added]

\* Mutant of LRUCache.set: 'if ttl is not None', a ttl of 0 expires at once
LRUCache_set_ZeroExpires(self, t, namespace, key, value, ttl) ==
    LET cache_key == LRUCache_generate_key(namespace, key)
        expiry    == IF ttl # None THEN Some(t + ttl[1]) ELSE None
        moved     == IF Contains(self.cache, cache_key)
                     THEN MoveToEnd(self.cache, cache_key)
                     ELSE self.cache
        added     == Assign(moved, cache_key, value, expiry)
    IN  IF Len(added) > self.max_size
        THEN [self EXCEPT !.cache = Del(added, Head(added).key),
                          !.evictions = @ + 1]
        ELSE [self EXCEPT !.cache = added]

LRUCache_set(self, t, namespace, key, value, ttl) ==
    LET cache_key == LRUCache_generate_key(namespace, key)
        expiry    == IF Truthy(ttl) THEN Some(t + ttl[1]) ELSE None
        moved     == IF Contains(self.cache, cache_key)
                     THEN MoveToEnd(self.cache, cache_key)
                     ELSE self.cache
        added     == Assign(moved, cache_key, value, expiry)
    IN  IF Len(added) > self.max_size
        THEN [self EXCEPT !.cache = Del(added, Head(added).key),
                          !.evictions = @ + 1]
        ELSE [self EXCEPT !.cache = added]

\* Mutant of LRUCache.delete: the oldest key is deleted, whatever the key given
LRUCache_delete_Oldest(self, namespace, key) ==
    LET cache_key == LRUCache_generate_key(namespace, key) IN
    IF Contains(self.cache, cache_key)
    THEN [self EXCEPT !.cache = Del(self.cache, Head(self.cache).key)]
    ELSE self

LRUCache_delete(self, namespace, key) ==
    LET cache_key == LRUCache_generate_key(namespace, key) IN
    IF Contains(self.cache, cache_key)
    THEN [self EXCEPT !.cache = Del(self.cache, cache_key)]
    ELSE self

\* Mutant of LRUCache.clear: the namespace is ignored
LRUCache_clear_All(self, namespace) == [self EXCEPT !.cache = <<>>]

\* Mutant of LRUCache.clear: clear() starts the counters again
LRUCache_clear_ResetCounters(self, namespace) ==
    IF namespace # <<>>
    THEN [self EXCEPT !.cache =
            SelectSeq(self.cache,
                      LAMBDA e : ~StartsWith(e.key, namespace \o <<":">>))]
    ELSE [self EXCEPT !.cache = <<>>, !.hits = 0, !.misses = 0, !.evictions = 0]

\* namespace is None (or "", also falsy) or a namespace string
LRUCache_clear(self, namespace) ==
    IF namespace # <<>>
    THEN [self EXCEPT !.cache =
            SelectSeq(self.cache,
                      LAMBDA e : ~StartsWith(e.key, namespace \o <<":">>))]
    ELSE [self EXCEPT !.cache = <<>>]

---------------------------------------------------------------------------
(* class RedisCache. The server behind self.client is [up, data]: up says
   whether it answers (a command sent while it is not up raises in the
   client), data is the sequence of its keys with their bytes and the time
   they expire at. *)

\* a value that pickle.dumps raises on (a lambda, a lock, an open file, ...):
\* it is told from None and from the values Some(x) by its length
Unpicklable == <<"unpicklable", "unpicklable">>

pickle_raises(value) == Len(value) = 2

\* pickle.dumps(value) / pickle.loads(bytes)
pickle_dumps(value) == [pickle |-> value]

pickle_loads(bytes) == bytes.pickle

\* a value that pickle.dumps takes and pickle.loads raises on (an object
\* whose __setstate__ raises, or whose class cannot be imported on loading)
Unloadable == <<"unloadable", "unloadable", "unloadable">>

pickle_loads_raises(bytes) == Len(bytes.pickle) = 3

\* the keys the server holds at time t: a key is gone once its time to live
\* has passed
Live(data, t) ==
    SelectSeq(data, LAMBDA e : ~(e.expiry # None /\ t >= e.expiry[1]))

\* RedisCache.__init__ raises: self.client.ping() is not answered
RedisCache_init_raises(server) == ~server.up

RedisCache_init == [class |-> "RedisCache", hits |-> 0, misses |-> 0]

RedisCache_generate_key(namespace, key) ==
    <<"compass", ":">> \o namespace \o <<":">> \o key

\* Mutant of RedisCache.get: no except clause
RedisCache_get_NoExcept(self, server, t, namespace, key) ==
    LET cache_key == RedisCache_generate_key(namespace, key)
        data      == Live(server.data, t)
    IN  IF ~server.up
        THEN [self |-> self, ret |-> None, raised |-> TRUE]
        ELSE IF Contains(data, cache_key)
        THEN IF pickle_loads_raises(Entry(data, cache_key).value)
             THEN [self |-> [self EXCEPT !.hits = @ + 1], ret |-> None,
                   raised |-> TRUE]
             ELSE [self |-> [self EXCEPT !.hits = @ + 1],
                   ret  |-> pickle_loads(Entry(data, cache_key).value),
                   raised |-> FALSE]
        ELSE [self |-> [self EXCEPT !.misses = @ + 1], ret |-> None,
              raised |-> FALSE]

\* Mutant of RedisCache.get: a failure replaces the backend by a fresh
\* in-memory store
RedisCache_get_LateFallback(self, server, t, namespace, key) ==
    LET cache_key == RedisCache_generate_key(namespace, key)
        data      == Live(server.data, t)
    IN  IF ~server.up
        THEN [self |-> [LRUCache_init(1) EXCEPT !.misses = 1], ret |-> None,
              raised |-> FALSE]
        ELSE IF Contains(data, cache_key)
        THEN IF pickle_loads_raises(Entry(data, cache_key).value)
             THEN [self |-> [self EXCEPT !.hits = @ + 1, !.misses = @ + 1],
                   ret |-> None, raised |-> FALSE]
             ELSE [self |-> [self EXCEPT !.hits = @ + 1],
                   ret  |-> pickle_loads(Entry(data, cache_key).value),
                   raised |-> FALSE]
        ELSE [self |-> [self EXCEPT !.misses = @ + 1], ret |-> None,
              raised |-> FALSE]

\* returns the object after the call, the value returned, and whether an
\* exception left the method. self.hits += 1 comes before pickle.loads(value)
\* in the try block: when loads raises, the except clause adds a miss
RedisCache_get(self, server, t, namespace, key) ==
    LET cache_key == RedisCache_generate_key(namespace, key)
        data      == Live(server.data, t)
    IN  IF ~server.up
        THEN [self |-> [self EXCEPT !.misses = @ + 1], ret |-> None,
              raised |-> FALSE]
        ELSE IF Contains(data, cache_key)
        THEN IF pickle_loads_raises(Entry(data, cache_key).value)
             THEN [self |-> [self EXCEPT !.hits = @ + 1, !.misses = @ + 1],
                   ret |-> None, raised |-> FALSE]
             ELSE [self |-> [self EXCEPT !.hits = @ + 1],
                   ret  |-> pickle_loads(Entry(data, cache_key).value),
                   raised |-> FALSE]
        ELSE [self |-> [self EXCEPT !.misses = @ + 1], ret |-> None,
              raised |-> FALSE]

\* Mutant of RedisCache.set: the key is deleted before the value is pickled
RedisCache_set_DeleteFirst(self, server, t, namespace, key, value, ttl) ==
    LET cache_key == RedisCache_generate_key(namespace, key)
        data      == Live(server.data, t)
        expiry    == IF Truthy(ttl) THEN Some(t + ttl[1]) ELSE None
    IN  IF ~server.up
        THEN [server |-> server, raised |-> FALSE]
        ELSE IF pickle_raises(value)
        THEN [server |-> [server EXCEPT !.data = Del(data, cache_key)],
              raised |-> FALSE]
        ELSE [server |-> [server EXCEPT !.data =
                            Assign(data, cache_key, pickle_dumps(value), expiry)],
              raised |-> FALSE]

\* returns the server after the call, and whether an exception left the
\* method; self is not changed
RedisCache_set(self, server, t, namespace, key, value, ttl) ==
    LET cache_key == RedisCache_generate_key(namespace, key)
        data      == Live(server.data, t)
        expiry    == IF Truthy(ttl) THEN Some(t + ttl[1]) ELSE None
    IN  IF pickle_raises(value) \/ ~server.up
        THEN [server |-> server, raised |-> FALSE]
        ELSE [server |-> [server EXCEPT !.data =
                            Assign(data, cache_key, pickle_dumps(value), expiry)],
              raised |-> FALSE]

RedisCache_delete(self, server, t, namespace, key) ==
    LET cache_key == RedisCache_generate_key(namespace, key)
    IN  IF ~server.up
        THEN [server |-> server, raised |-> FALSE]
        ELSE [server |-> [server EXCEPT !.data = Del(Live(@, t), cache_key)],
              raised |-> FALSE]

\* keys(f"compass:{namespace}:*") and delete, or flushdb
RedisCache_clear(self, server, t, namespace) ==
    IF ~server.up
    THEN [server |-> server, raised |-> FALSE]
    ELSE IF namespace # <<>>
    THEN [server |-> [server EXCEPT !.data =
                SelectSeq(Live(@, t), LAMBDA e :
                    ~StartsWith(e.key, <<"compass", ":">> \o namespace \o <<":">>))],
          raised |-> FALSE]
    ELSE [server |-> [server EXCEPT !.data = <<>>], raised |-> FALSE]

---------------------------------------------------------------------------
(* class CacheManager: delegation to the backend *)

\* Mutant of CacheManager._initialize_backend: no fallback
CacheManager_initialize_backend_NoFallback(use_redis, server, max_size) ==
    IF use_redis
    THEN IF RedisCache_init_raises(server)
         THEN [backend |-> [class |-> "none"], raised |-> TRUE]
         ELSE [backend |-> RedisCache_init, raised |-> FALSE]
    ELSE [backend |-> LRUCache_init(max_size), raised |-> FALSE]

\* CacheManager.__init__: the backend chosen, and whether an exception left
\* the constructor
CacheManager_initialize_backend(use_redis, server, max_size) ==
    IF use_redis
    THEN IF RedisCache_init_raises(server)
         THEN [backend |-> LRUCache_init(max_size), raised |-> FALSE]
         ELSE [backend |-> RedisCache_init, raised |-> FALSE]
    ELSE [backend |-> LRUCache_init(max_size), raised |-> FALSE]

CacheManager_get(self, t, namespace, key) == LRUCache_get(self, t, namespace, key)

CacheManager_set(self, t, namespace, key, value, ttl) ==
    LRUCache_set(self, t, namespace, key, value, ttl)

CacheManager_delete(self, namespace, key) == LRUCache_delete(self, namespace, key)

CacheManager_clear(self, namespace) == LRUCache_clear(self, namespace)

LRUCache_get_stats(self) ==
    [type |-> "in-memory", size |-> Len(self.cache), max_size |-> self.max_size,
     hits |-> self.hits, misses |-> self.misses, evictions |-> self.evictions]

RedisCache_get_stats(self, server, t) ==
    IF server.up
    THEN [type |-> "redis", connected |-> TRUE, keys |-> Len(Live(server.data, t)),
          hits |-> self.hits, misses |-> self.misses]
    ELSE [type |-> "redis", connected |-> FALSE]

CacheManager_get_stats(self, server, t) ==
    IF self.class = "RedisCache"
    THEN RedisCache_get_stats(self, server, t)
    ELSE LRUCache_get_stats(self)

\* get_cache_statistics(): the statistics of the backend, and of the
\* configuration the entry that names the backend
get_cache_statistics(self, server, t, use_redis) ==
    [stats  |-> CacheManager_get_stats(self, server, t),
     config |-> [backend |-> IF use_redis THEN "redis" ELSE "in-memory"]]

\* reset_cache_stats(): the counters the backend object has
reset_cache_stats(self) ==
    IF self.class = "LRUCache"
    THEN [self EXCEPT !.hits = 0, !.misses = 0, !.evictions = 0]
    ELSE [self EXCEPT !.hits = 0, !.misses = 0]

---------------------------------------------------------------------------
(* Python values passed to wrapped functions, and generate_cache_key *)

\* a Python value is [type, val]: val is the string (str), the decimal digits
\* (int), the sequence of the items (list) or of the [k, v] pairs in
\* insertion order (dict)
PyStr(s)  == [type |-> "str", val |-> s]
PyInt(d)  == [type |-> "int", val |-> d]
PyNone    == [type |-> "NoneType", val |-> <<>>]
PyList(l) == [type |-> "list", val |-> l]
PyDict(d) == [type |-> "dict", val |-> d]

\* a tuple: val is the sequence of the items
PyTuple(l) == [type |-> "tuple", val |-> l]

\* an instance of a class that defines neither __str__ nor __repr__ nor
\* __eq__: val is the address of the instance, <<id>>
PyObject(id) == [type |-> "object", val |-> id]

\* sep.join(parts)
RECURSIVE Join(_, _)
Join(parts, sep) ==
    IF parts = <<>> THEN <<>>
    ELSE IF Len(parts) = 1 THEN parts[1]
    ELSE parts[1] \o sep \o Join(Tail(parts), sep)

\* repr(v): a dict in the insertion order of its keys, an object by its address
RECURSIVE Repr(_)
Repr(v) ==
    CASE v.type = "str" -> <<"'">> \o v.val \o <<"'">>
      [] v.type = "int" -> v.val
      [] v.type = "NoneType" -> <<"None">>
      [] v.type = "list" ->
            <<"[">> \o Join([i \in 1..Len(v.val) |-> Repr(v.val[i])],
                            <<",", " ">>) \o <<"]">>
      [] v.type = "tuple" ->
            <<"(">> \o Join([i \in 1..Len(v.val) |-> Repr(v.val[i])],
                            <<",", " ">>)
                   \o (IF Len(v.val) = 1 THEN <<",">> ELSE <<>>) \o <<")">>
      [] v.type = "dict" ->
            <<"{">> \o Join([i \in 1..Len(v.val) |->
                              <<"'">> \o v.val[i].k \o <<"'", ":", " ">>
                                  \o Repr(v.val[i].v)],
                            <<",", " ">>) \o <<"}">>
      [] v.type = "object" -> <<"<", "O object at ">> \o v.val \o <<">">>

\* str(v): the text of a str, and repr(v) for the other types
Str(v) == IF v.type = "str" THEN v.val ELSE Repr(v)

\* the names used as dict keys and keyword names, in the order Python sorts them
NameOrder == <<"employee_id", "model", "role_id", "scenarios", "top_k">>

Rank(name) == CHOOSE i \in 1..Len(NameOrder) : NameOrder[i] = name[1]

\* sorted(items) by name; items are [k, v] pairs with distinct names
RECURSIVE SortItems(_)
SortItems(items) ==
    IF items = <<>> THEN <<>>
    ELSE LET rest == SortItems(Tail(items))
             x    == Head(items)
             n    == Cardinality({i \in 1..Len(rest) : Rank(rest[i].k) < Rank(x.k)})
         IN  SubSeq(rest, 1, n) \o <<x>> \o SubSeq(rest, n + 1, Len(rest))

\* json.dumps(v) raises TypeError ("Object of type ... is not JSON
\* serializable"): v is or holds a value the encoder has no text for
RECURSIVE json_raises(_)
json_raises(v) ==
    CASE v.type = "object" -> TRUE
      [] v.type \in {"list", "tuple"} ->
            \E i \in 1..Len(v.val) : json_raises(v.val[i])
      [] v.type = "dict" -> \E i \in 1..Len(v.val) : json_raises(v.val[i].v)
      [] OTHER -> FALSE

\* json.dumps(v, sort_keys=True), for a v it does not raise on
RECURSIVE json_dumps(_)
json_dumps(v) ==
    CASE v.type = "str" -> <<"\"">> \o v.val \o <<"\"">>
      [] v.type = "int" -> v.val
      [] v.type = "NoneType" -> <<"null">>
      [] v.type \in {"list", "tuple"} ->
            <<"[">> \o Join([i \in 1..Len(v.val) |-> json_dumps(v.val[i])],
                            <<",", " ">>) \o <<"]">>
      [] v.type = "dict" ->
            LET items == SortItems(v.val) IN
            <<"{">> \o Join([i \in 1..Len(items) |->
                              <<"\"">> \o items[i].k \o <<"\"", ":", " ">>
                                  \o json_dumps(items[i].v)],
                            <<",", " ">>) \o <<"}">>

\* hashlib.md5(s.encode()).hexdigest(): a string of one piece, the digest of s
\* (two texts have one digest only if they are equal)
md5_hexdigest(s) == <<[md5 |-> s]>>

\* the text appended for one argument
KeyPart(v) == IF v.type \in {"dict", "list"} THEN json_dumps(v) ELSE Str(v)

\* generate_cache_key(*args, **kwargs) raises: json.dumps is called on the
\* arguments that are a dict or a list, and on no other
generate_cache_key_raises(args, kwargs) ==
    \/ \E i \in 1..Len(args) :
          args[i].type \in {"dict", "list"} /\ json_raises(args[i])
    \/ \E i \in 1..Len(kwargs) :
          kwargs[i].v.type \in {"dict", "list"} /\ json_raises(kwargs[i].v)

\* generate_cache_key(*args, **kwargs); kwargs are [k, v] pairs in call order
generate_cache_key(args, kwargs) ==
    LET sorted    == SortItems(kwargs)
        key_parts == [i \in 1..Len(args) |-> KeyPart(args[i])]
                     \o [i \in 1..Len(sorted) |->
                            sorted[i].k \o <<"=">> \o KeyPart(sorted[i].v)]
    IN  md5_hexdigest(Join(key_parts, <<"|">>))

---------------------------------------------------------------------------
(* The memoization decorators and the functions they wrap *)

TTL_EMBEDDING        == 86400
TTL_ROLE_MATCH       == 3600
TTL_LEADERSHIP_SCORE == 7200
TTL_CAREER_ROADMAP   == 3600
TTL_NARRATIVE        == 1800   \* read by no decorator
TTL_AI_RESPONSE      == 900

\* the namespace a decorator reads and writes
DecoratorNamespace(d) ==
    CASE d = "cache_embedding"        -> <<"embedding">>
      [] d = "cache_role_matching"    -> <<"role_match">>
      [] d = "cache_leadership_score" -> <<"leadership">>
      [] d = "cache_career_roadmap"   -> <<"roadmap">>
      [] d = "cache_ai_response"      -> <<"ai_response">>

\* the configured default a decorator falls back to
DecoratorDefaultTTL(d) ==
    CASE d = "cache_embedding"        -> TTL_EMBEDDING
      [] d = "cache_role_matching"    -> TTL_ROLE_MATCH
      [] d = "cache_leadership_score" -> TTL_LEADERSHIP_SCORE
      [] d = "cache_career_roadmap"   -> TTL_CAREER_ROADMAP
      [] d = "cache_ai_response"      -> TTL_AI_RESPONSE

\* cache_ttl = ttl or CacheConfig.TTL_...
DecoratorTTL(d, ttl) == IF Truthy(ttl) THEN ttl ELSE Some(DecoratorDefaultTTL(d))

\* a function decorated with @decorator(ttl=ttl)
Applied(f, decorator, ttl) == [f |-> f, decorator |-> decorator, ttl |-> ttl]

\* each decorator factory applied with no override, with an override of 0
\* and with an override of 1 second
Applications ==
    { Applied("embedding_fn",    "cache_embedding", None),
      Applied("embedding_fn_0",  "cache_embedding", Some(0)),
      Applied("embedding_fn_1",  "cache_embedding", Some(1)),
      Applied("role_match_fn",   "cache_role_matching", None),
      Applied("role_match_fn_0", "cache_role_matching", Some(0)),
      Applied("role_match_fn_1", "cache_role_matching", Some(1)),
      Applied("leadership_fn",   "cache_leadership_score", None),
      Applied("leadership_fn_0", "cache_leadership_score", Some(0)),
      Applied("leadership_fn_1", "cache_leadership_score", Some(1)),
      Applied("roadmap_fn",      "cache_career_roadmap", None),
      Applied("roadmap_fn_0",    "cache_career_roadmap", Some(0)),
      Applied("roadmap_fn_1",    "cache_career_roadmap", Some(1)),
      Applied("ai_response_fn",   "cache_ai_response", None),
      Applied("ai_response_fn_0", "cache_ai_response", Some(0)),
      Applied("ai_response_fn_1", "cache_ai_response", Some(1)) }

\* the decorated functions of the repository: decorator and ttl given to it
Decoration(f) ==
    CASE f = "generate_embedding" -> [decorator |-> "cache_embedding", ttl |-> None]
      [] f = "match_employee_to_roles" ->
            [decorator |-> "cache_role_matching", ttl |-> None]
      [] f = "generate_career_narrative" ->
            [decorator |-> "cache_ai_response", ttl |-> None]
      [] f = "calculate_current_roadmap" ->
            [decorator |-> "cache_career_roadmap", ttl |-> None]
      [] f = "calculate_predicted_roadmap_with_simulations" ->
            [decorator |-> "cache_career_roadmap", ttl |-> None]
      [] OTHER ->
            LET a == CHOOSE x \in Applications : x.f = f
            IN  [decorator |-> a.decorator, ttl |-> a.ttl]

Call(f, args, kwargs) == [f |-> f, args |-> args, kwargs |-> kwargs]

CallNamespace(c) == DecoratorNamespace(Decoration(c.f).decorator)

CallKey(c) == generate_cache_key(c.args, c.kwargs)

\* the arguments of the calls of SpecMemo
Employee1 == PyDict(<<[k |-> <<"employee_id">>, v |-> PyStr(<<"E1">>)]>>)
Roles1    == PyList(<<PyDict(<<[k |-> <<"role_id">>, v |-> PyStr(<<"R1">>)]>>)>>)

WrappedCalls ==
    { Call("calculate_current_roadmap", <<Employee1, Roles1>>, <<>>),
      Call("calculate_predicted_roadmap_with_simulations",
           <<Employee1, Roles1>>, <<>>),
      Call("generate_embedding", <<PyStr(<<"a", "|", "b">>)>>, <<>>),
      Call("generate_embedding", <<PyStr(<<"a">>), PyStr(<<"b">>)>>, <<>>),
      Call("generate_embedding", <<PyStr(<<"c">>)>>, <<>>) }

\* what a wrapped function may return: the producers are opaque to the cache,
\* a result is either a value of the call (tagged with it) or None
Results(c) == {Some(c), None}

---------------------------------------------------------------------------
(* History kept beside the program state *)

\* found: the physical key was present before the operation; before: the
\* number of entries before it; at: the time of the operation
NoOp == [op |-> "none", namespace |-> <<>>, key |-> <<>>, value |-> None,
         ttl |-> None, ret |-> None, hit |-> FALSE, found |-> FALSE,
         before |-> 0, at |-> 0, raised |-> FALSE]

\* order of last access (a set, or a get that was counted as a hit) of the
\* physical keys that are present in cache c
Touch(r, k, c) == SelectSeq(Append(SelectSeq(r, LAMBDA x : x # k), k),
                            LAMBDA x : Contains(c, x))

Present(r, c) == SelectSeq(r, LAMBDA x : Contains(c, x))

OwnersPresent(o, c) == {x \in o : Contains(c, x.ck)}

---------------------------------------------------------------------------
(* Operations on the Cache Manager *)

\* cache_manager.get(namespace, key); the value returned is lastOp'.ret
DoGet(namespace, key) ==
    /\ LET r   == CacheManager_get(backend, now, namespace, key)
           ck  == LRUCache_generate_key(namespace, key)
           hit == r.self.hits > backend.hits
       IN  /\ backend' = r.self
           /\ lastOp' = [NoOp EXCEPT !.op = "get", !.namespace = namespace,
                                     !.key = key, !.ret = r.ret, !.hit = hit,
                                     !.found = Contains(backend.cache, ck),
                                     !.before = Len(backend.cache),
                                     !.at = now]
           /\ recency' = IF hit THEN Touch(recency, ck, r.self.cache)
                         ELSE Present(recency, r.self.cache)
           /\ owner' = OwnersPresent(owner, r.self.cache)
    /\ nOps' = nOps + 1

\* cache_manager.set(namespace, key, value, ttl)
DoSet(namespace, key, value, ttl) ==
    /\ LET b  == CacheManager_set(backend, now, namespace, key, value, ttl)
           ck == LRUCache_generate_key(namespace, key)
       IN  /\ backend' = b
           /\ recency' = Touch(recency, ck, b.cache)
           /\ owner' = OwnersPresent(
                 {x \in owner : x.ck # ck}
                     \cup {[ck |-> ck, namespace |-> namespace, key |-> key]},
                 b.cache)
    /\ lastOp' = [NoOp EXCEPT !.op = "set", !.namespace = namespace,
                              !.key = key, !.value = value, !.ttl = ttl,
                              !.found = Contains(backend.cache,
                                  LRUCache_generate_key(namespace, key)),
                              !.before = Len(backend.cache), !.at = now]
    /\ nOps' = nOps + 1

\* cache_manager.delete(namespace, key)
DoDelete(namespace, key) ==
    /\ LET b == CacheManager_delete(backend, namespace, key)
       IN  /\ backend' = b
           /\ recency' = Present(recency, b.cache)
           /\ owner' = OwnersPresent(owner, b.cache)
    /\ lastOp' = [NoOp EXCEPT !.op = "delete", !.namespace = namespace,
                              !.key = key,
                              !.found = Contains(backend.cache,
                                  LRUCache_generate_key(namespace, key)),
                              !.before = Len(backend.cache), !.at = now]
    /\ nOps' = nOps + 1

\* cache_manager.clear(namespace)
DoClear(namespace) ==
    /\ LET b == CacheManager_clear(backend, namespace)
       IN  /\ backend' = b
           /\ recency' = Present(recency, b.cache)
           /\ owner' = OwnersPresent(owner, b.cache)
    /\ lastOp' = [NoOp EXCEPT !.op = "clear", !.namespace = namespace,
                              !.before = Len(backend.cache), !.at = now]
    /\ nOps' = nOps + 1

\* the same four calls when the backend is the RedisCache
RedisDoGet(namespace, key) ==
    /\ LET r  == RedisCache_get(backend, redis, now, namespace, key)
           ck == RedisCache_generate_key(namespace, key)
       IN  /\ backend' = r.self
           /\ lastOp' = [NoOp EXCEPT !.op = "get", !.namespace = namespace,
                                     !.key = key, !.ret = r.ret,
                                     !.hit = r.self.hits > backend.hits,
                                     !.found = Contains(Live(redis.data, now), ck),
                                     !.before = Len(redis.data),
                                     !.at = now, !.raised = r.raised]
    /\ nOps' = nOps + 1
    /\ UNCHANGED <<redis, recency, owner>>

RedisDoSet(namespace, key, value, ttl) ==
    /\ LET r  == RedisCache_set(backend, redis, now, namespace, key, value, ttl)
           ck == RedisCache_generate_key(namespace, key)
       IN  /\ redis' = r.server
           /\ lastOp' = [NoOp EXCEPT !.op = "set", !.namespace = namespace,
                                     !.key = key, !.value = value, !.ttl = ttl,
                                     !.found = Contains(Live(redis.data, now), ck),
                                     !.before = Len(redis.data),
                                     !.at = now, !.raised = r.raised]
    /\ nOps' = nOps + 1
    /\ UNCHANGED <<backend, recency, owner>>

RedisDoDelete(namespace, key) ==
    /\ LET r  == RedisCache_delete(backend, redis, now, namespace, key)
           ck == RedisCache_generate_key(namespace, key)
       IN  /\ redis' = r.server
           /\ lastOp' = [NoOp EXCEPT !.op = "delete", !.namespace = namespace,
                                     !.key = key,
                                     !.found = Contains(Live(redis.data, now), ck),
                                     !.before = Len(redis.data),
                                     !.at = now, !.raised = r.raised]
    /\ nOps' = nOps + 1
    /\ UNCHANGED <<backend, recency, owner>>

RedisDoClear(namespace) ==
    /\ LET r == RedisCache_clear(backend, redis, now, namespace)
       IN  /\ redis' = r.server
           /\ lastOp' = [NoOp EXCEPT !.op = "clear", !.namespace = namespace,
                                     !.before = Len(redis.data),
                                     !.at = now, !.raised = r.raised]
    /\ nOps' = nOps + 1
    /\ UNCHANGED <<backend, recency, owner>>

\* self.backend.get(...), .set(...), .delete(...), .clear(...): the method of
\* the class of the backend object
MgrGet(namespace, key) ==
    IF backend.class = "RedisCache"
    THEN RedisDoGet(namespace, key)
    ELSE DoGet(namespace, key) /\ UNCHANGED redis

MgrSet(namespace, key, value, ttl) ==
    IF backend.class = "RedisCache"
    THEN RedisDoSet(namespace, key, value, ttl)
    ELSE DoSet(namespace, key, value, ttl) /\ UNCHANGED redis

MgrDelete(namespace, key) ==
    IF backend.class = "RedisCache"
    THEN RedisDoDelete(namespace, key)
    ELSE DoDelete(namespace, key) /\ UNCHANGED redis

MgrClear(namespace) ==
    IF backend.class = "RedisCache"
    THEN RedisDoClear(namespace)
    ELSE DoClear(namespace) /\ UNCHANGED redis

NoFrame == [call |-> <<>>, result |-> None, idx |-> 0]

\* no argument sets under study
NoProbe == [a |-> <<>>, b |-> <<>>, key_a |-> None, key_b |-> None]

\* a Redis server that does not answer
NoServer == [up |-> FALSE, data |-> <<>>]

\* the in-memory backend just constructed, at time 0
InitBackend ==
    /\ backend = LRUCache_init(MaxSize)
    /\ now = 0
    /\ nOps = 0
    /\ lastOp = NoOp
    /\ recency = <<>>
    /\ owner = {}
    /\ lock = None
    /\ serial = backend

\* no object has been handed to the cache, the module-level cache of
\* career_roadmap is empty, cache warming is off (the default) and not running
NoWarm == [pc |-> "idle", invoked |-> 0, raised |-> FALSE, calls |-> 0]

InitExt ==
    /\ heap = <<>>
    /\ stored = <<>>
    /\ PREDICTIONS_CACHE = <<>>
    /\ ENABLE_CACHE_WARMING = FALSE
    /\ warm = NoWarm

\* no wrapped call has begun
InitMemo ==
    /\ pc = [t \in Threads |-> "idle"]
    /\ frame = [t \in Threads |-> NoFrame]
    /\ log = <<>>
    /\ overlap = FALSE

Init ==
    /\ InitBackend
    /\ InitMemo
    /\ InitExt
    /\ probe = NoProbe
    /\ USE_REDIS = FALSE
    /\ redis = NoServer

\* cache_manager before the module has constructed it
NoBackend == [class |-> "none"]

Constructed == backend.class # "none"

Get(namespace, key) ==
    /\ Constructed
    /\ nOps < MaxOps
    /\ MgrGet(namespace, key)
    /\ UNCHANGED <<now, memoVars, otherVars>>

Set(namespace, key, value, ttl) ==
    /\ Constructed
    /\ nOps < MaxOps
    /\ MgrSet(namespace, key, value, ttl)
    /\ UNCHANGED <<now, memoVars, otherVars>>

Delete(namespace, key) ==
    /\ Constructed
    /\ nOps < MaxOps
    /\ MgrDelete(namespace, key)
    /\ UNCHANGED <<now, memoVars, otherVars>>

Clear(namespace) ==
    /\ Constructed
    /\ nOps < MaxOps
    /\ MgrClear(namespace)
    /\ UNCHANGED <<now, memoVars, otherVars>>

ResetStats ==
    /\ Constructed
    /\ nOps < MaxOps
    /\ backend' = reset_cache_stats(backend)
    /\ lastOp' = [NoOp EXCEPT !.op = "reset_cache_stats",
                              !.before = IF backend.class = "LRUCache"
                                         THEN Len(backend.cache)
                                         ELSE Len(redis.data),
                              !.at = now]
    /\ nOps' = nOps + 1
    /\ UNCHANGED <<now, recency, owner, memoVars, otherVars, redis>>

\* the clock advances
Tick ==
    /\ now < MaxTime
    /\ now' = now + 1
    /\ UNCHANGED <<backendVars, memoVars, otherVars, redis>>

Next ==
    \/ \E namespace \in Namespaces, key \in Keys : Get(namespace, key)
    \/ \E namespace \in Namespaces, key \in Keys, ttl \in TTLs :
          Set(namespace, key, Payload(nOps + 1), ttl)
    \/ \E namespace \in Namespaces, key \in Keys : Delete(namespace, key)
    \/ \E namespace \in Namespaces \cup {<<>>} : Clear(namespace)
    \/ ResetStats
    \/ Tick

Spec == Init /\ [][Next]_vars

---------------------------------------------------------------------------
(* A wrapped call: the wrapper of a decorator, run by thread t *)

\* history: one record per wrapped call
LogEntry(t, c, hit) ==
    [thread |-> t, call |-> c, hit |-> hit, executed |-> FALSE,
     done |-> FALSE, ret |-> None, raised |-> FALSE, down |-> FALSE]

\* cache_key = generate_cache_key(*args, **kwargs) raises TypeError: the
\* exception leaves the wrapper, which has done nothing else
WrapperRaise(t, c) ==
    /\ pc[t] = "idle"
    /\ Len(log) < MaxCalls
    /\ generate_cache_key_raises(c.args, c.kwargs)
    /\ log' = Append(log, [LogEntry(t, c, FALSE) EXCEPT !.done = TRUE,
                                                        !.raised = TRUE])
    /\ overlap' = (overlap \/ \E u \in Threads \ {t} : pc[u] # "idle")
    /\ UNCHANGED <<backendVars, now, pc, frame, otherVars, redis>>

\* cache_key = generate_cache_key(*args, **kwargs);
\* cached_value = cache_manager.get(ns, cache_key);
\* if cached_value is not None: return cached_value
WrapperGet(t, c) ==
    /\ pc[t] = "idle"
    /\ Len(log) < MaxCalls
    /\ ~generate_cache_key_raises(c.args, c.kwargs)
    /\ MgrGet(CallNamespace(c), CallKey(c))
    /\ LET cached_value == lastOp'.ret
           entry == [LogEntry(t, c, lastOp'.hit) EXCEPT
                        !.down = backend.class = "RedisCache" /\ ~redis.up]
       IN  IF lastOp'.raised
           THEN /\ log' = Append(log, [entry EXCEPT !.done = TRUE,
                                                   !.raised = TRUE])
                /\ UNCHANGED <<pc, frame>>
           ELSE IF cached_value # None
           THEN /\ log' = Append(log, [entry EXCEPT !.done = TRUE,
                                                   !.ret = cached_value])
                /\ UNCHANGED <<pc, frame>>
           ELSE /\ log' = Append(log, entry)
                /\ pc' = [pc EXCEPT ![t] = "miss"]
                /\ frame' = [frame EXCEPT ![t] =
                                [call |-> c, result |-> None, idx |-> Len(log) + 1]]
    /\ overlap' = (overlap \/ \E u \in Threads \ {t} : pc[u] # "idle")
    /\ UNCHANGED <<now, otherVars>>

\* result = func(*args, **kwargs)
WrapperExec(t) ==
    /\ pc[t] = "miss"
    /\ \E result \in Results(frame[t].call) :
          frame' = [frame EXCEPT ![t].result = result]
    /\ pc' = [pc EXCEPT ![t] = "computed"]
    /\ log' = [log EXCEPT ![frame[t].idx].executed = TRUE]
    /\ UNCHANGED <<backendVars, now, overlap, otherVars, redis>>

\* cache_ttl = ttl or CacheConfig.TTL_...;
\* cache_manager.set(ns, cache_key, result, cache_ttl); return result
WrapperSet(t) ==
    /\ pc[t] = "computed"
    /\ LET c == frame[t].call
           d == Decoration(c.f)
       IN  MgrSet(CallNamespace(c), CallKey(c), frame[t].result,
                  DecoratorTTL(d.decorator, d.ttl))
    /\ log' = IF lastOp'.raised
               THEN [log EXCEPT ![frame[t].idx].done = TRUE,
                                ![frame[t].idx].raised = TRUE]
               ELSE [log EXCEPT ![frame[t].idx].done = TRUE,
                                ![frame[t].idx].ret = frame[t].result]
    /\ pc' = [pc EXCEPT ![t] = "idle"]
    /\ frame' = [frame EXCEPT ![t] = NoFrame]
    /\ UNCHANGED <<now, overlap, otherVars>>

NextMemo ==
    \/ \E t \in Threads, c \in WrappedCalls : WrapperGet(t, c)
    \/ \E t \in Threads : WrapperExec(t)
    \/ \E t \in Threads : WrapperSet(t)

\* wrapped calls from the threads, all within one TTL window (the shortest
\* TTL is 900 s: the clock stands still)
SpecMemo == Init /\ [][NextMemo]_vars

---------------------------------------------------------------------------
(* Wrapped calls whose argument is, or holds, an object that json.dumps has
   no text for *)

Object1 == PyObject(<<"0x1">>)

ObjectCalls ==
    { Call("generate_embedding", <<Object1>>, <<>>),
      Call("generate_embedding", <<PyList(<<Object1>>)>>, <<>>),
      Call("generate_embedding", <<PyStr(<<"c">>)>>,
           <<[k |-> <<"model">>,
              v |-> PyDict(<<[k |-> <<"model">>, v |-> Object1]>>)]>>),
      Call("generate_embedding", <<PyStr(<<"c">>)>>, <<>>) }

NextObject ==
    \/ \E t \in Threads, c \in ObjectCalls : WrapperRaise(t, c)
    \/ \E t \in Threads, c \in ObjectCalls : WrapperGet(t, c)
    \/ \E t \in Threads : WrapperExec(t)
    \/ \E t \in Threads : WrapperSet(t)

SpecObject == Init /\ [][NextObject]_vars

---------------------------------------------------------------------------
(* The Cache Manager from its construction on, with either backend, and a
   Redis server that stops and resumes answering *)

\* cache_manager = CacheManager()
Construct ==
    /\ ~Constructed
    /\ LET r == CacheManager_initialize_backend(USE_REDIS, redis, MaxSize)
       IN  /\ backend' = r.backend
           /\ lastOp' = [NoOp EXCEPT !.op = "construct", !.raised = r.raised,
                                     !.at = now]
    /\ UNCHANGED <<now, nOps, recency, owner, memoVars, otherVars, redis>>

\* get_cache_statistics(); the dictionary returned is lastOp'.ret
Statistics ==
    /\ Constructed
    /\ nOps < MaxOps
    /\ lastOp' = [NoOp EXCEPT
                    !.op = "get_cache_statistics",
                    !.ret = Some(get_cache_statistics(backend, redis, now, USE_REDIS)),
                    !.at = now]
    /\ nOps' = nOps + 1
    /\ UNCHANGED <<backend, now, recency, owner, memoVars, otherVars, redis>>

\* invalidate_role_cache(): clear("role_match"), then clear("roadmap")
InvalidateRole ==
    /\ Constructed
    /\ nOps < MaxOps
    /\ IF backend.class = "RedisCache"
       THEN /\ redis' = RedisCache_clear(backend,
                            RedisCache_clear(backend, redis, now,
                                             <<"role_match">>).server,
                            now, <<"roadmap">>).server
            /\ UNCHANGED <<backend, recency, owner>>
       ELSE LET b == CacheManager_clear(CacheManager_clear(backend, <<"role_match">>),
                                        <<"roadmap">>)
            IN  /\ backend' = b
                /\ recency' = Present(recency, b.cache)
                /\ owner' = OwnersPresent(owner, b.cache)
                /\ UNCHANGED redis
    /\ lastOp' = [NoOp EXCEPT !.op = "invalidate_role_cache", !.at = now]
    /\ nOps' = nOps + 1
    /\ UNCHANGED <<now, memoVars, otherVars>>

\* the server stops answering, and answers again: its keys are kept
RedisDown ==
    /\ redis.up
    /\ redis' = [redis EXCEPT !.up = FALSE]
    /\ UNCHANGED <<backendVars, now, memoVars, otherVars>>

RedisUp ==
    /\ ~redis.up
    /\ redis' = [redis EXCEPT !.up = TRUE]
    /\ UNCHANGED <<backendVars, now, memoVars, otherVars>>

RedisKeys == {<<"k1">>}

\* the values given to set: the payload of the call, or a value that
\* pickle.dumps raises on
SetValues(n) == {Payload(n), Unpicklable}

InitRedis ==
    /\ backend = NoBackend
    /\ now = 0
    /\ nOps = 0
    /\ lastOp = NoOp
    /\ recency = <<>>
    /\ owner = {}
    /\ lock = None
    /\ serial = NoBackend
    /\ InitMemo
    /\ InitExt
    /\ probe = NoProbe
    /\ USE_REDIS \in BOOLEAN
    /\ redis \in {[NoServer EXCEPT !.up = u] : u \in BOOLEAN}

NextRedis ==
    \/ Construct
    \/ \E namespace \in Namespaces, key \in RedisKeys :
          Get(namespace, key)
    \/ \E namespace \in Namespaces, key \in RedisKeys, ttl \in TTLs,
          value \in SetValues(nOps + 1) :
          Set(namespace, key, value, ttl)
    \/ \E namespace \in Namespaces, key \in RedisKeys :
          Delete(namespace, key)
    \/ \E namespace \in Namespaces \cup {<<>>} : Clear(namespace)
    \/ ResetStats
    \/ Statistics
    \/ InvalidateRole
    \/ RedisDown
    \/ RedisUp
    \/ Tick

SpecRedis == InitRedis /\ [][NextRedis]_vars

---------------------------------------------------------------------------
(* Gets and the two counters, with either backend: values that cannot be
   loaded back, a server that stops and resumes answering, resets *)

NextCount ==
    \/ Construct
    \/ \E namespace \in Namespaces, key \in RedisKeys :
          Get(namespace, key)
    \/ \E namespace \in Namespaces, key \in RedisKeys, ttl \in TTLs,
          value \in {Payload(nOps + 1), Unloadable} :
          Set(namespace, key, value, ttl)
    \/ ResetStats
    \/ RedisDown
    \/ RedisUp
    \/ Tick

SpecCount == InitRedis /\ [][NextCount]_vars

---------------------------------------------------------------------------
(* Wrapped calls on the Redis backend, with a server that stops and resumes
   answering *)

RedisCalls == { Call("generate_career_narrative", <<PyStr(<<"a">>)>>, <<>>) }

InitRedisMemo ==
    /\ backend = RedisCache_init
    /\ now = 0
    /\ nOps = 0
    /\ lastOp = NoOp
    /\ recency = <<>>
    /\ owner = {}
    /\ lock = None
    /\ serial = backend
    /\ InitMemo
    /\ InitExt
    /\ probe = NoProbe
    /\ USE_REDIS = TRUE
    /\ redis = [NoServer EXCEPT !.up = TRUE]

NextRedisMemo ==
    \/ \E t \in Threads, c \in RedisCalls : WrapperGet(t, c)
    \/ \E t \in Threads : WrapperExec(t)
    \/ \E t \in Threads : WrapperSet(t)
    \/ RedisDown
    \/ RedisUp

SpecRedisMemo == InitRedisMemo /\ [][NextRedisMemo]_vars

---------------------------------------------------------------------------
(* Invalidation: the namespaces cleared when an employee, or the role data,
   change *)

NS_leadership  == <<"leadership">>
NS_roadmap     == <<"roadmap">>
NS_ai_response == <<"ai_response">>

\* the namespaces of the five decorators
AllNamespaces ==
    {NS_embedding, NS_role_match, NS_leadership, NS_roadmap, NS_ai_response}

\* Mutant of the list of invalidate_employee_cache: role_match is missing
EmployeeNamespaces_NoRoleMatch == <<NS_leadership, NS_roadmap, NS_ai_response>>

\* Mutant of the list of invalidate_employee_cache: every namespace
EmployeeNamespaces_All ==
    <<NS_embedding, NS_role_match, NS_leadership, NS_roadmap, NS_ai_response>>

\* namespaces = ["role_match", "leadership", "roadmap", "ai_response"]
EmployeeNamespaces == <<NS_role_match, NS_leadership, NS_roadmap, NS_ai_response>>

\* for namespace in namespaces: cache_manager.clear(namespace), on the LRUCache
RECURSIVE ClearEach(_, _)
ClearEach(self, namespaces) ==
    IF namespaces = <<>> THEN self
    ELSE ClearEach(CacheManager_clear(self, Head(namespaces)), Tail(namespaces))

\* the same on the RedisCache: the server after the clears
RECURSIVE RedisClearEach(_, _, _, _)
RedisClearEach(self, server, t, namespaces) ==
    IF namespaces = <<>> THEN server
    ELSE RedisClearEach(self,
                        RedisCache_clear(self, server, t, Head(namespaces)).server,
                        t, Tail(namespaces))

\* history: the record of a call of invalidate_employee_cache in the log
InvalidationCall(employee_id) ==
    Call("invalidate_employee_cache", <<PyStr(employee_id)>>, <<>>)

\* invalidate_employee_cache(employee_id), called between the wrapped calls
InvalidateEmployee(employee_id) ==
    /\ Constructed
    /\ nOps < MaxOps
    /\ Len(log) < MaxCalls
    /\ \A t \in Threads : pc[t] = "idle"
    /\ IF backend.class = "RedisCache"
       THEN /\ redis' = RedisClearEach(backend, redis, now, EmployeeNamespaces)
            /\ UNCHANGED <<backend, recency, owner>>
       ELSE LET b == ClearEach(backend, EmployeeNamespaces)
            IN  /\ backend' = b
                /\ recency' = Present(recency, b.cache)
                /\ owner' = OwnersPresent(owner, b.cache)
                /\ UNCHANGED redis
    /\ lastOp' = [NoOp EXCEPT !.op = "invalidate_employee_cache",
                              !.key = employee_id,
                              !.before = IF backend.class = "LRUCache"
                                         THEN Len(backend.cache)
                                         ELSE Len(redis.data),
                              !.at = now]
    /\ nOps' = nOps + 1
    /\ log' = Append(log, [LogEntry("t1", InvalidationCall(employee_id), FALSE)
                              EXCEPT !.done = TRUE])
    /\ UNCHANGED <<now, pc, frame, overlap, otherVars>>

\* the in-memory backend with room for every entry of a run
InitInval ==
    /\ backend = LRUCache_init(MaxOps)
    /\ now = 0
    /\ nOps = 0
    /\ lastOp = NoOp
    /\ recency = <<>>
    /\ owner = {}
    /\ lock = None
    /\ serial = backend
    /\ InitMemo
    /\ InitExt
    /\ probe = NoProbe
    /\ USE_REDIS = FALSE
    /\ redis = NoServer

EmployeeIds == {<<"E1">>}

\* entries of every namespace, set and read through the manager, and the two
\* invalidations
NextInval ==
    \/ \E namespace \in AllNamespaces : Get(namespace, <<"k1">>)
    \/ \E namespace \in AllNamespaces :
          Set(namespace, <<"k1">>, Payload(nOps + 1), None)
    \/ \E employee_id \in EmployeeIds : InvalidateEmployee(employee_id)
    \/ InvalidateRole

SpecInval == InitInval /\ [][NextInval]_vars

---------------------------------------------------------------------------
(* The producers called for one employee, and the module-level cache that
   calculate_predicted_roadmap_with_simulations of career_roadmap.py keeps
   beside the Cache Manager *)

\* career_roadmap.CACHE_TTL_SECONDS
CACHE_TTL_SECONDS == 600

\* d.get(name, ''), for a dict d of the model
DictGet(d, name) ==
    IF \E i \in 1..Len(d.val) : d.val[i].k = name
    THEN d.val[CHOOSE i \in 1..Len(d.val) : d.val[i].k = name].v
    ELSE PyStr(<<>>)

\* build_roles_signature(all_roles): the sorted parts f"{role_id}::{marker}"
\* and the number of roles; the sorted list is the parts with the number of
\* times each occurs
build_roles_signature(all_roles) ==
    LET part(i) == Str(DictGet(all_roles.val[i], <<"role_id">>)) \o <<"::">>
                     \o Str(DictGet(all_roles.val[i], <<"updated_at">>))
        parts   == {part(i) : i \in 1..Len(all_roles.val)}
    IN  [parts |-> [x \in parts |->
                        Cardinality({i \in 1..Len(all_roles.val) : part(i) = x})],
         n     |-> Len(all_roles.val)]

\* scenarios is None: the four scenarios, in this order
DefaultScenarios ==
    <<"steady_growth", "aggressive_growth", "lateral_mobility", "specialization">>

\* bool(azure_client): no Azure OpenAI client is configured
use_ai == FALSE

\* build_prediction_cache_key(employee_id, scenarios, roles_signature, use_ai)
build_prediction_cache_key(employee_id, scenarios, roles_signature, ai) ==
    [employee_id |-> employee_id, scenarios |-> scenarios,
     roles |-> roles_signature, ai |-> ai]

\* the employee a producer is called for: employee.get('employee_id', '')
EmployeeOf(c) == Str(DictGet(c.args[1], <<"employee_id">>))

\* what a producer computes at time t in the wrapped call number idx
Predictions(c, t, idx) ==
    [f |-> c.f, employee_id |-> EmployeeOf(c), analysis_date |-> t,
     computed |-> idx]

\* the body of calculate_predicted_roadmap_with_simulations(employee,
\* all_roles): the module-level cache after the call, and the value returned
calculate_predicted_roadmap_with_simulations(pcache, t, c, idx) ==
    LET cache_key == build_prediction_cache_key(
                        EmployeeOf(c), DefaultScenarios,
                        build_roles_signature(c.args[2]), use_ai)
        fresh     == Predictions(c, t, idx)
        stored_   == (cache_key :> [timestamp |-> t, predictions |-> fresh])
                        @@ pcache
    IN  IF cache_key \in DOMAIN pcache
        THEN IF t - pcache[cache_key].timestamp <= CACHE_TTL_SECONDS
             THEN [cache |-> pcache,
                   ret   |-> [pcache[cache_key].predictions
                                 EXCEPT !.analysis_date = t]]
             ELSE [cache |-> stored_, ret |-> fresh]
        ELSE [cache |-> stored_, ret |-> fresh]

\* result = func(*args, **kwargs), func being
\* calculate_predicted_roadmap_with_simulations
PredictedExec(t) ==
    /\ pc[t] = "miss"
    /\ frame[t].call.f = "calculate_predicted_roadmap_with_simulations"
    /\ LET r == calculate_predicted_roadmap_with_simulations(
                    PREDICTIONS_CACHE, now, frame[t].call, frame[t].idx)
       IN  /\ PREDICTIONS_CACHE' = r.cache
           /\ frame' = [frame EXCEPT ![t].result = Some(r.ret)]
    /\ pc' = [pc EXCEPT ![t] = "computed"]
    /\ log' = [log EXCEPT ![frame[t].idx].executed = TRUE]
    /\ UNCHANGED <<backendVars, now, overlap, probe, USE_REDIS, lock, serial,
                   heap, stored, ENABLE_CACHE_WARMING, warm, redis>>

\* result = func(*args, **kwargs), func being a producer that keeps nothing
\* between its calls
FreshExec(t) ==
    /\ pc[t] = "miss"
    /\ frame[t].call.f # "calculate_predicted_roadmap_with_simulations"
    /\ frame' = [frame EXCEPT ![t].result =
                    Some(Predictions(frame[t].call, now, frame[t].idx))]
    /\ pc' = [pc EXCEPT ![t] = "computed"]
    /\ log' = [log EXCEPT ![frame[t].idx].executed = TRUE]
    /\ UNCHANGED <<backendVars, now, overlap, otherVars, redis>>

\* more than CACHE_TTL_SECONDS go by (less than the TTL of any namespace)
Elapse ==
    /\ now < MaxTime
    /\ now' = now + CACHE_TTL_SECONDS + 1
    /\ UNCHANGED <<backendVars, memoVars, otherVars, redis>>

EmployeeCalls ==
    { Call("calculate_predicted_roadmap_with_simulations",
           <<Employee1, Roles1>>, <<>>),
      Call("match_employee_to_roles", <<Employee1, Roles1>>, <<>>) }

NextEmployee ==
    \/ \E t \in Threads, c \in EmployeeCalls : WrapperGet(t, c)
    \/ \E t \in Threads : PredictedExec(t)
    \/ \E t \in Threads : FreshExec(t)
    \/ \E t \in Threads : WrapperSet(t)
    \/ \E employee_id \in EmployeeIds : InvalidateEmployee(employee_id)
    \/ Elapse

SpecEmployee == Init /\ [][NextEmployee]_vars

---------------------------------------------------------------------------
(* Wrapped functions that raise *)

\* result = func(*args, **kwargs) raises: the exception leaves the wrapper,
\* which has no try block
WrapperExecRaise(t) ==
    /\ pc[t] = "miss"
    /\ pc' = [pc EXCEPT ![t] = "idle"]
    /\ frame' = [frame EXCEPT ![t] = NoFrame]
    /\ log' = [log EXCEPT ![frame[t].idx].executed = TRUE,
                          ![frame[t].idx].done = TRUE,
                          ![frame[t].idx].raised = TRUE]
    /\ UNCHANGED <<backendVars, now, overlap, otherVars, redis>>

\* a function of the repository, and one decorated with a TTL of 1 second
RaisingCalls ==
    { Call("generate_embedding", <<PyStr(<<"c">>)>>, <<>>),
      Call("embedding_fn_1", <<PyStr(<<"x">>)>>, <<>>) }

\* wrapped calls one after the other, and the clock
NextRaise ==
    \/ \E c \in RaisingCalls : WrapperGet("t1", c)
    \/ WrapperExec("t1")
    \/ WrapperExecRaise("t1")
    \/ WrapperSet("t1")
    \/ Tick

SpecRaise == Init /\ [][NextRaise]_vars

---------------------------------------------------------------------------
(* Sets into a full map that holds expired entries *)

\* cache_manager.set(namespace, key, value, ttl); history: stored' keeps the
\* entries that the set removed
CapacitySet(namespace, key, ttl) ==
    /\ nOps < MaxOps
    /\ DoSet(namespace, key, Payload(nOps + 1), ttl)
    /\ LET evicted == SelectSeq(backend.cache, LAMBDA e :
                           ~Contains(backend'.cache, e.key))
       IN  stored' = IF evicted # <<>> THEN evicted ELSE stored
    /\ UNCHANGED <<now, memoVars, probe, USE_REDIS, lock, serial, heap,
                   PREDICTIONS_CACHE, ENABLE_CACHE_WARMING, warm, redis>>

NextCapacity ==
    \/ \E namespace \in {NS_embedding, NS_role_match},
          key \in {<<"k1">>, <<"k2">>}, ttl \in {None, Some(1)} :
          CapacitySet(namespace, key, ttl)
    \/ \E namespace \in {NS_embedding, NS_role_match},
          key \in {<<"k1">>, <<"k2">>} : Get(namespace, key)
    \/ Tick

SpecCapacity == Init /\ [][NextCapacity]_vars

---------------------------------------------------------------------------
(* A Redis database shared with another application *)

\* a key of another application, stored in the same database
ForeignEntry ==
    [key |-> <<"session", ":", "k1">>, value |-> pickle_dumps(Payload(0)),
     expiry |-> None]

ForeignEntries(data) ==
    {data[i] : i \in {n \in 1..Len(data) :
                        ~StartsWith(data[n].key, <<"compass", ":">>)}}

InitShared ==
    /\ backend = RedisCache_init
    /\ now = 0
    /\ nOps = 0
    /\ lastOp = NoOp
    /\ recency = <<>>
    /\ owner = {}
    /\ lock = None
    /\ serial = backend
    /\ InitMemo
    /\ InitExt
    /\ probe = NoProbe
    /\ USE_REDIS = TRUE
    /\ redis = [up |-> TRUE, data |-> <<ForeignEntry>>]

NextShared ==
    \/ \E namespace \in {NS_embedding, NS_role_match}, key \in {<<"k1">>} :
          Get(namespace, key)
    \/ \E namespace \in {NS_embedding, NS_role_match}, key \in {<<"k1">>},
          ttl \in {None, Some(1)} :
          Set(namespace, key, Payload(nOps + 1), ttl)
    \/ \E namespace \in {NS_embedding, NS_role_match}, key \in {<<"k1">>} :
          Delete(namespace, key)
    \/ \E namespace \in {NS_embedding, NS_role_match, <<>>} : Clear(namespace)
    \/ Tick

SpecShared == InitShared /\ [][NextShared]_vars

---------------------------------------------------------------------------
(* Entries stored without a TTL, and with a TTL of 0 *)

\* ttl arguments of set: none, 0 and 1 second
TTLs0 == {None, Some(0), Some(1)}

\* a value that records the ttl and the time it was stored with
Stamp(ttl, t) == Some([ttl |-> ttl, at |-> t])

\* a function decorated with an override of 0
ZeroCall == Call("embedding_fn_0", <<PyStr(<<"x">>)>>, <<>>)

\* keys as the wrappers compute them; the first is the key of ZeroCall
DigestKeys == {CallKey(Call("f", <<PyStr(<<x>>)>>, <<>>)) : x \in {"x", "y"}}

\* Cache Manager operations on one namespace, wrapped calls, and the clock
NextNoExpiry ==
    \/ \E key \in DigestKeys : Get(NS_embedding, key)
    \/ \E key \in DigestKeys, ttl \in TTLs0 :
          Set(NS_embedding, key, Stamp(ttl, now), ttl)
    \/ \E key \in DigestKeys : Delete(NS_embedding, key)
    \/ \E namespace \in {NS_embedding, <<>>} : Clear(namespace)
    \/ WrapperGet("t1", ZeroCall)
    \/ WrapperExec("t1")
    \/ WrapperSet("t1")
    \/ Tick

SpecNoExpiry == Init /\ [][NextNoExpiry]_vars

---------------------------------------------------------------------------
(* Every decorator factory, with and without a TTL override *)

\* one call of each decorated function, and of generate_career_narrative
DecoratedCalls ==
    {Call(a.f, <<PyStr(<<"x">>)>>, <<>>) : a \in Applications} \cup RedisCalls

\* wrapped calls one after the other, and the clock
NextDecorated ==
    \/ \E c \in DecoratedCalls : WrapperGet("t1", c)
    \/ WrapperExec("t1")
    \/ WrapperSet("t1")
    \/ Tick

SpecDecorated == Init /\ [][NextDecorated]_vars

---------------------------------------------------------------------------
(* Cache warming: warm_cache_for_employee(employee_dict, roles_dict) calls
   four producers in turn, inside one try block *)

\* the producers in the order of the calls; compute_leadership_potential is
\* not decorated
WarmSteps == <<"embedding", "role_match", "leadership", "roadmap">>

\* create_profile_text(employee_dict)
create_profile_text(employee) ==
    PyStr(<<"profile of ">> \o EmployeeOf([args |-> <<employee>>]))

\* the call made at a step of the warming
WarmCall(step, employee_dict, roles_dict) ==
    CASE step = "embedding" ->
            Call("generate_embedding", <<create_profile_text(employee_dict)>>, <<>>)
      [] step = "role_match" ->
            Call("match_employee_to_roles", <<employee_dict, roles_dict>>,
                 <<[k |-> <<"top_k">>, v |-> PyInt(<<"5">>)]>>)
      [] step = "leadership" ->
            Call("compute_leadership_potential", <<employee_dict>>, <<>>)
      [] step = "roadmap" ->
            Call("calculate_current_roadmap", <<employee_dict, roles_dict>>, <<>>)

\* what a producer does when it is executed: it returns a result, or raises
Outcomes(c) ==
    {[raises |-> FALSE, result |-> r] : r \in Results(c)}
        \cup {[raises |-> TRUE, result |-> None]}

\* Mutant of warm_cache_for_employee: no try block around the producers
warm_cache_step_NoTry(self, t, c, outcome) ==
    IF c.f = "compute_leadership_potential"
    THEN [self |-> self, executed |-> TRUE, failed |-> outcome.raises,
          raised |-> outcome.raises]
    ELSE LET d == Decoration(c.f)
             r == CacheManager_get(self, t, CallNamespace(c), CallKey(c))
         IN  IF r.ret # None
             THEN [self |-> r.self, executed |-> FALSE, failed |-> FALSE,
                   raised |-> FALSE]
             ELSE IF outcome.raises
             THEN [self |-> r.self, executed |-> TRUE, failed |-> TRUE,
                   raised |-> TRUE]
             ELSE [self |-> CacheManager_set(r.self, t, CallNamespace(c),
                                             CallKey(c), outcome.result,
                                             DecoratorTTL(d.decorator, d.ttl)),
                   executed |-> TRUE, failed |-> FALSE, raised |-> FALSE]

\* one producer call of the warming, on the in-memory backend: the wrapper
\* of the decorator (get; on a miss the function, then set) around the
\* function, which does what outcome says. failed: the call raised, and the
\* except clause ended the warming; raised: an exception left
\* warm_cache_for_employee
warm_cache_step(self, t, c, outcome) ==
    IF c.f = "compute_leadership_potential"
    THEN [self |-> self, executed |-> TRUE, failed |-> outcome.raises,
          raised |-> FALSE]
    ELSE LET d == Decoration(c.f)
             r == CacheManager_get(self, t, CallNamespace(c), CallKey(c))
         IN  IF r.ret # None
             THEN [self |-> r.self, executed |-> FALSE, failed |-> FALSE,
                   raised |-> FALSE]
             ELSE IF outcome.raises
             THEN [self |-> r.self, executed |-> TRUE, failed |-> TRUE,
                   raised |-> FALSE]
             ELSE [self |-> CacheManager_set(r.self, t, CallNamespace(c),
                                             CallKey(c), outcome.result,
                                             DecoratorTTL(d.decorator, d.ttl)),
                   executed |-> TRUE, failed |-> FALSE, raised |-> FALSE]

\* warm_cache_for_employee is called: if not CacheConfig.ENABLE_CACHE_WARMING:
\* return
WarmBegin ==
    /\ warm.pc = "idle"
    /\ ~warm.raised
    /\ warm.calls < MaxCalls
    /\ warm' = IF ENABLE_CACHE_WARMING
               THEN [warm EXCEPT !.pc = WarmSteps[1], !.calls = @ + 1]
               ELSE [warm EXCEPT !.calls = @ + 1]
    /\ lastOp' = [NoOp EXCEPT !.op = "warm_cache_for_employee", !.at = now,
                              !.before = Len(backend.cache)]
    /\ UNCHANGED <<backend, now, nOps, recency, owner, memoVars, probe,
                   USE_REDIS, lock, serial, heap, stored, PREDICTIONS_CACHE,
                   ENABLE_CACHE_WARMING, redis>>

\* the next producer call inside the try block; after the last one, and
\* after a call that raised, the warming returns
WarmStep(outcome) ==
    /\ warm.pc # "idle"
    /\ backend.class = "LRUCache"
    /\ LET step == warm.pc
           i    == CHOOSE n \in 1..Len(WarmSteps) : WarmSteps[n] = step
           c    == WarmCall(step, Employee1, Roles1)
           r    == warm_cache_step(backend, now, c, outcome)
           ck   == IF c.f = "compute_leadership_potential" THEN <<>>
                   ELSE LRUCache_generate_key(CallNamespace(c), CallKey(c))
       IN  /\ outcome \in Outcomes(c)
           /\ backend' = r.self
           /\ recency' = IF Contains(r.self.cache, ck)
                         THEN Touch(recency, ck, r.self.cache)
                         ELSE Present(recency, r.self.cache)
           /\ owner' = OwnersPresent(
                 IF Contains(r.self.cache, ck)
                 THEN {x \in owner : x.ck # ck}
                          \cup {[ck |-> ck, namespace |-> CallNamespace(c),
                                 key |-> CallKey(c)]}
                 ELSE owner,
                 r.self.cache)
           /\ warm' = [warm EXCEPT
                        !.pc = IF r.failed \/ r.raised \/ i = Len(WarmSteps)
                               THEN "idle" ELSE WarmSteps[i + 1],
                        !.invoked = IF r.executed THEN @ + 1 ELSE @,
                        !.raised = r.raised]
           /\ lastOp' = [NoOp EXCEPT !.op = "warm_step", !.namespace = <<step>>,
                                     !.hit = ~r.executed, !.raised = r.failed,
                                     !.before = Len(backend.cache), !.at = now]
    /\ nOps' = nOps + 1
    /\ UNCHANGED <<now, memoVars, probe, USE_REDIS, lock, serial, heap, stored,
                   PREDICTIONS_CACHE, ENABLE_CACHE_WARMING, redis>>

\* the in-memory backend, cache warming enabled or not
InitWarm ==
    /\ InitBackend
    /\ InitMemo
    /\ heap = <<>>
    /\ stored = <<>>
    /\ PREDICTIONS_CACHE = <<>>
    /\ ENABLE_CACHE_WARMING \in BOOLEAN
    /\ warm = NoWarm
    /\ probe = NoProbe
    /\ USE_REDIS = FALSE
    /\ redis = NoServer

NextWarm ==
    \/ WarmBegin
    \/ \E raises \in BOOLEAN, result \in {None} \cup {Some(WarmCall(WarmSteps[n], Employee1, Roles1)) : n \in 1..Len(WarmSteps)} :
          WarmStep([raises |-> raises, result |-> result])

SpecWarm == InitWarm /\ [][NextWarm]_vars

---------------------------------------------------------------------------
(* The in-memory backend called from several threads: each method of
   LRUCache taken statement by statement, the body inside "with self.lock" *)

\* Mutant of the lock: acquire never waits
LockFree_Always(l) == TRUE

\* threading.Lock: acquire goes through when no thread holds the lock
LockFree(l) == l = None

\* the locals of a method of LRUCache run by a thread; time is the value of
\* time.time() the method has read
LockFrame(op, namespace, key, value, ttl) ==
    [op |-> op, namespace |-> namespace, key |-> key, value |-> value,
     ttl |-> ttl, cache_key |-> LRUCache_generate_key(namespace, key),
     expiry |-> None, time |-> 0, entry |-> None, counter |-> "none",
     tmp |-> 0, ret |-> None, keys_to_delete |-> <<>>]

\* a thread calls get, set, delete or clear: the statements before the lock
\* (cache_key, and in set expiry = time.time() + ttl if ttl else None)
Begin(t, op, namespace, key, value, ttl) ==
    /\ pc[t] = "idle"
    /\ nOps < MaxLockOps
    /\ frame' = [frame EXCEPT ![t] =
            [LockFrame(op, namespace, key, value, ttl) EXCEPT
                !.expiry = IF op = "set" /\ Truthy(ttl) THEN Some(now + ttl[1])
                           ELSE None,
                !.time = now]]
    /\ pc' = [pc EXCEPT ![t] = "acquire"]
    /\ nOps' = nOps + 1
    /\ UNCHANGED <<backend, now, lastOp, recency, owner, log, overlap,
                   otherVars, redis>>

\* with self.lock:
Acquire(t) ==
    /\ pc[t] = "acquire"
    /\ LockFree(lock)
    /\ lock' = Some(t)
    /\ pc' = [pc EXCEPT ![t] =
            CASE frame[t].op = "get"    -> "get_lookup"
              [] frame[t].op = "set"    -> "set_move"
              [] frame[t].op = "delete" -> "delete"
              [] frame[t].op = "clear"  -> "clear_list"]
    /\ UNCHANGED <<backendVars, now, frame, log, overlap, probe, USE_REDIS,
                   serial, redis, extVars>>

\* the variables a statement of a body leaves alone, besides backend, pc, frame
BodyUnchanged ==
    UNCHANGED <<now, nOps, lastOp, recency, owner, log, overlap, otherVars, redis>>

\* get: if cache_key in self.cache: move_to_end; value, expiry = ...
GetLookup(t) ==
    /\ pc[t] = "get_lookup"
    /\ IF Contains(backend.cache, frame[t].cache_key)
       THEN LET moved == MoveToEnd(backend.cache, frame[t].cache_key)
            IN  /\ backend' = [backend EXCEPT !.cache = moved]
                /\ frame' = [frame EXCEPT ![t].entry =
                                Some(Entry(moved, frame[t].cache_key))]
                /\ pc' = [pc EXCEPT ![t] = "get_expiry"]
       ELSE /\ frame' = [frame EXCEPT ![t].counter = "misses"]
            /\ pc' = [pc EXCEPT ![t] = "count_load"]
            /\ UNCHANGED backend
    /\ BodyUnchanged

\* get: if expiry and time.time() > expiry: del ...; then the counter and
\* the value to return are known
GetExpiry(t) ==
    /\ pc[t] = "get_expiry"
    /\ LET e == frame[t].entry[1]
       IN  IF Truthy(e.expiry) /\ now > e.expiry[1]
           THEN /\ backend' = [backend EXCEPT
                                !.cache = Del(@, frame[t].cache_key)]
                /\ frame' = [frame EXCEPT ![t].counter = "misses",
                                          ![t].time = now]
           ELSE /\ frame' = [frame EXCEPT ![t].counter = "hits",
                                          ![t].ret = e.value,
                                          ![t].time = now]
                /\ UNCHANGED backend
    /\ pc' = [pc EXCEPT ![t] = "count_load"]
    /\ BodyUnchanged

\* self.hits += 1 (or misses, or evictions): the attribute is read ...
CountLoad(t) ==
    /\ pc[t] = "count_load"
    /\ frame' = [frame EXCEPT ![t].tmp = backend[frame[t].counter]]
    /\ pc' = [pc EXCEPT ![t] = "count_store"]
    /\ UNCHANGED backend
    /\ BodyUnchanged

\* ... and written back, one more
CountStore(t) ==
    /\ pc[t] = "count_store"
    /\ backend' = [backend EXCEPT ![frame[t].counter] = frame[t].tmp + 1]
    /\ pc' = [pc EXCEPT ![t] = "release"]
    /\ UNCHANGED frame
    /\ BodyUnchanged

\* set: if cache_key in self.cache: move_to_end
SetMove(t) ==
    /\ pc[t] = "set_move"
    /\ backend' = IF Contains(backend.cache, frame[t].cache_key)
                  THEN [backend EXCEPT !.cache = MoveToEnd(@, frame[t].cache_key)]
                  ELSE backend
    /\ pc' = [pc EXCEPT ![t] = "set_assign"]
    /\ UNCHANGED frame
    /\ BodyUnchanged

\* set: self.cache[cache_key] = (value, expiry)
SetAssign(t) ==
    /\ pc[t] = "set_assign"
    /\ backend' = [backend EXCEPT !.cache =
            Assign(@, frame[t].cache_key, frame[t].value, frame[t].expiry)]
    /\ pc' = [pc EXCEPT ![t] = "set_evict"]
    /\ UNCHANGED frame
    /\ BodyUnchanged

\* set: if len(self.cache) > self.max_size: delete the first key
SetEvict(t) ==
    /\ pc[t] = "set_evict"
    /\ IF Len(backend.cache) > backend.max_size
       THEN /\ backend' = [backend EXCEPT !.cache = Del(@, Head(@).key)]
            /\ frame' = [frame EXCEPT ![t].counter = "evictions"]
            /\ pc' = [pc EXCEPT ![t] = "count_load"]
       ELSE /\ pc' = [pc EXCEPT ![t] = "release"]
            /\ UNCHANGED <<backend, frame>>
    /\ BodyUnchanged

\* delete: if cache_key in self.cache: del self.cache[cache_key]
DeleteEntry(t) ==
    /\ pc[t] = "delete"
    /\ backend' = [backend EXCEPT !.cache = Del(@, frame[t].cache_key)]
    /\ pc' = [pc EXCEPT ![t] = "release"]
    /\ UNCHANGED frame
    /\ BodyUnchanged

\* clear: keys_to_delete = [k for k in ... if k.startswith(...)], or
\* self.cache.clear()
ClearList(t) ==
    /\ pc[t] = "clear_list"
    /\ IF frame[t].namespace # <<>>
       THEN /\ frame' = [frame EXCEPT ![t].keys_to_delete =
                    {k \in KeysOf(backend.cache) :
                        StartsWith(k, frame[t].namespace \o <<":">>)}]
            /\ pc' = [pc EXCEPT ![t] = "clear_delete"]
            /\ UNCHANGED backend
       ELSE /\ backend' = [backend EXCEPT !.cache = <<>>]
            /\ pc' = [pc EXCEPT ![t] = "release"]
            /\ UNCHANGED frame
    /\ BodyUnchanged

\* clear: for key in keys_to_delete: del self.cache[key]
ClearDelete(t) ==
    /\ pc[t] = "clear_delete"
    /\ backend' = [backend EXCEPT !.cache =
            SelectSeq(@, LAMBDA e : e.key \notin frame[t].keys_to_delete)]
    /\ pc' = [pc EXCEPT ![t] = "release"]
    /\ UNCHANGED frame
    /\ BodyUnchanged

\* the method run as one step on the backend b, with the time it has read
Atomic(b, f) ==
    CASE f.op = "get"    -> LRUCache_get(b, f.time, f.namespace, f.key)
      [] f.op = "set"    -> [self |-> LRUCache_set(b, f.time, f.namespace, f.key,
                                                  f.value, f.ttl),
                             ret  |-> None]
      [] f.op = "delete" -> [self |-> LRUCache_delete(b, f.namespace, f.key),
                             ret  |-> None]
      [] f.op = "clear"  -> [self |-> LRUCache_clear(b, f.namespace), ret |-> None]

\* the end of the with block: the lock is released and the method returns
Release(t) ==
    /\ pc[t] = "release"
    /\ lock' = None
    /\ serial' = Atomic(serial, frame[t]).self
    /\ pc' = [pc EXCEPT ![t] = "idle"]
    /\ frame' = [frame EXCEPT ![t] = NoFrame]
    /\ UNCHANGED <<backend, now, nOps, lastOp, recency, owner, log, overlap,
                   probe, USE_REDIS, redis, extVars>>

\* the clock advances between the operations; a method reads the clock at
\* most once, and keeps what it has read in its frame
TickIdle ==
    /\ \A t \in Threads : pc[t] = "idle"
    /\ Tick

\* the (namespace, key) pairs the threads call the backend with
LockTargets ==
    { [namespace |-> NS_embedding, key |-> <<"k1">>],
      [namespace |-> NS_embedding, key |-> <<"k2">>],
      [namespace |-> NS_role_match, key |-> <<"k1">>] }

NextLock ==
    \/ \E t \in Threads, x \in LockTargets :
          Begin(t, "get", x.namespace, x.key, None, None)
    \/ \E t \in Threads, x \in LockTargets, ttl \in TTLs :
          Begin(t, "set", x.namespace, x.key, Payload(nOps + 1), ttl)
    \/ \E t \in Threads, x \in LockTargets :
          Begin(t, "delete", x.namespace, x.key, None, None)
    \/ \E t \in Threads, namespace \in {NS_embedding, <<>>} :
          Begin(t, "clear", namespace, <<>>, None, None)
    \/ \E t \in Threads : Acquire(t)
    \/ \E t \in Threads : GetLookup(t)
    \/ \E t \in Threads : GetExpiry(t)
    \/ \E t \in Threads : CountLoad(t)
    \/ \E t \in Threads : CountStore(t)
    \/ \E t \in Threads : SetMove(t)
    \/ \E t \in Threads : SetAssign(t)
    \/ \E t \in Threads : SetEvict(t)
    \/ \E t \in Threads : DeleteEntry(t)
    \/ \E t \in Threads : ClearList(t)
    \/ \E t \in Threads : ClearDelete(t)
    \/ \E t \in Threads : Release(t)
    \/ TickIdle

SpecLock == Init /\ [][NextLock]_vars

---------------------------------------------------------------------------
(* reset_cache_stats while other threads are in get and set *)

\* a thread calls reset_cache_stats(); history: serial is reset here, the
\* earliest moment an atomic reset could take effect
ResetBegin(t) ==
    /\ pc[t] = "idle"
    /\ nOps < MaxLockOps
    /\ pc' = [pc EXCEPT ![t] = "reset_hits"]
    /\ serial' = reset_cache_stats(serial)
    /\ nOps' = nOps + 1
    /\ UNCHANGED <<backend, now, lastOp, recency, owner, frame, log, overlap,
                   probe, USE_REDIS, lock, redis, extVars>>

\* cache_manager.backend.hits = 0, with no lock taken
ResetHits(t) ==
    /\ pc[t] = "reset_hits"
    /\ backend' = [backend EXCEPT !.hits = 0]
    /\ pc' = [pc EXCEPT ![t] = "reset_misses"]
    /\ UNCHANGED frame
    /\ BodyUnchanged

\* cache_manager.backend.misses = 0
ResetMisses(t) ==
    /\ pc[t] = "reset_misses"
    /\ backend' = [backend EXCEPT !.misses = 0]
    /\ pc' = [pc EXCEPT ![t] = "reset_evictions"]
    /\ UNCHANGED frame
    /\ BodyUnchanged

\* cache_manager.backend.evictions = 0, and the function returns
ResetEvictions(t) ==
    /\ pc[t] = "reset_evictions"
    /\ backend' = [backend EXCEPT !.evictions = 0]
    /\ lastOp' = [NoOp EXCEPT !.op = "reset_cache_stats", !.at = now]
    /\ pc' = [pc EXCEPT ![t] = "idle"]
    /\ UNCHANGED <<now, nOps, recency, owner, frame, log, overlap, otherVars,
                   redis>>

NextReset ==
    \/ \E t \in Threads : Begin(t, "get", NS_embedding, <<"k1">>, None, None)
    \/ \E t \in Threads :
          Begin(t, "set", NS_embedding, <<"k1">>, Payload(nOps + 1), None)
    \/ \E t \in Threads : Acquire(t)
    \/ \E t \in Threads : GetLookup(t)
    \/ \E t \in Threads : GetExpiry(t)
    \/ \E t \in Threads : CountLoad(t)
    \/ \E t \in Threads : CountStore(t)
    \/ \E t \in Threads : SetMove(t)
    \/ \E t \in Threads : SetAssign(t)
    \/ \E t \in Threads : SetEvict(t)
    \/ \E t \in Threads : Release(t)
    \/ \E t \in Threads : ResetBegin(t)
    \/ \E t \in Threads : ResetHits(t)
    \/ \E t \in Threads : ResetMisses(t)
    \/ \E t \in Threads : ResetEvictions(t)

SpecReset == Init /\ [][NextReset]_vars

---------------------------------------------------------------------------
(* Wrapped calls that make wrapped calls, from several threads, on the
   in-memory backend with its lock: match_employee_to_roles calls
   generate_embedding for the employee and for each role *)

MaxNested == 2  \* calls made by the threads per run (the calls they make
                \* from inside a wrapped function are not counted)

\* create_role_text(role)
create_role_text(role) == PyStr(<<"Role: ">> \o Str(DictGet(role, <<"title">>)))

\* the wrapped calls that the body of a wrapped function makes, in order
InnerCalls(c) ==
    IF c.f = "match_employee_to_roles"
    THEN <<Call("generate_embedding", <<create_profile_text(c.args[1])>>, <<>>)>>
            \o [i \in 1..Len(c.args[2].val) |->
                  Call("generate_embedding",
                       <<create_role_text(c.args[2].val[i])>>, <<>>)]
    ELSE <<>>

\* the calls the threads make
NestedCalls ==
    { Call("match_employee_to_roles", <<Employee1, Roles1>>, <<>>),
      Call("generate_embedding", <<create_profile_text(Employee1)>>, <<>>) }

\* the locals of a wrapper and of the function it wraps, after
\* cache_key = generate_cache_key(*args, **kwargs): inner is the number of
\* wrapped calls the function has made, got what the last one returned,
\* outer the frame of the caller when the call is made by a wrapped function
NestedFrame(c, idx, outer) ==
    [call |-> c, cache_key |-> CallKey(c), result |-> None, idx |-> idx,
     outer |-> outer, inner |-> 0, got |-> None]

\* Mutant of the end of the with block: the lock taken for the get of a
\* wrapper is kept until its set
LockAfter_HeldUntilSet(t, op) == IF op = "get" THEN Some(t) ELSE None

\* the lock at the end of "with self.lock" in LRUCache.get and LRUCache.set
LockAfter(t, op) == None

\* a thread calls a wrapped function: cache_key = generate_cache_key(...)
NestedBegin(t, c) ==
    /\ pc[t] = "idle"
    /\ Len(log) < MaxNested
    /\ frame' = [frame EXCEPT ![t] = NestedFrame(c, Len(log) + 1, None)]
    /\ pc' = [pc EXCEPT ![t] = "get_acquire"]
    /\ log' = Append(log, LogEntry(t, c, FALSE))
    /\ overlap' = (overlap \/ \E u \in Threads \ {t} : pc[u] # "idle")
    /\ UNCHANGED <<backendVars, now, otherVars, redis>>

\* with self.lock: in LRUCache.get and in LRUCache.set
NestedAcquire(t) ==
    /\ pc[t] \in {"get_acquire", "set_acquire"}
    /\ LockFree(lock)
    /\ lock' = Some(t)
    /\ pc' = [pc EXCEPT ![t] = IF pc[t] = "get_acquire" THEN "get_body"
                               ELSE "set_body"]
    /\ UNCHANGED <<backendVars, now, frame, log, overlap, probe, USE_REDIS,
                   serial, redis, extVars>>

\* the wrapper returns value: to the thread, or to the wrapped function that
\* made the call, which goes on
NestedReturn(t, value) ==
    IF frame[t].outer = None
    THEN /\ pc' = [pc EXCEPT ![t] = "idle"]
         /\ frame' = [frame EXCEPT ![t] = NoFrame]
         /\ log' = [log EXCEPT ![frame[t].idx].done = TRUE,
                               ![frame[t].idx].ret = value]
    ELSE /\ pc' = [pc EXCEPT ![t] = "miss"]
         /\ frame' = [frame EXCEPT ![t] =
                         [frame[t].outer[1] EXCEPT !.inner = @ + 1,
                                                   !.got = value]]
         /\ UNCHANGED log

\* the body of LRUCache.get under the lock, its end, and in the wrapper
\* if cached_value is not None: return cached_value
NestedGet(t) ==
    /\ pc[t] = "get_body"
    /\ DoGet(CallNamespace(frame[t].call), frame[t].cache_key)
    /\ lock' = LockAfter(t, "get")
    /\ IF lastOp'.ret # None
       THEN NestedReturn(t, lastOp'.ret)
       ELSE /\ pc' = [pc EXCEPT ![t] = "miss"]
            /\ UNCHANGED <<frame, log>>
    /\ UNCHANGED <<now, overlap, probe, USE_REDIS, serial, redis, extVars>>

\* result = func(*args, **kwargs): the function makes its next wrapped call
\* (none after an employee embedding that is falsy), or returns
NestedExec(t) ==
    /\ pc[t] = "miss"
    /\ LET f     == frame[t]
           inner == InnerCalls(f.call)
       IN  IF f.inner < Len(inner) /\ ~(f.inner = 1 /\ f.got = None)
           THEN /\ frame' = [frame EXCEPT ![t] =
                               NestedFrame(inner[f.inner + 1], f.idx, Some(f))]
                /\ pc' = [pc EXCEPT ![t] = "get_acquire"]
                /\ UNCHANGED log
           ELSE /\ \E result \in Results(f.call) :
                     frame' = [frame EXCEPT ![t].result = result]
                /\ pc' = [pc EXCEPT ![t] = "set_acquire"]
                /\ log' = [log EXCEPT ![f.idx].executed = TRUE]
    /\ UNCHANGED <<backendVars, now, overlap, otherVars, redis>>

\* the body of LRUCache.set under the lock, its end, and return result
NestedSet(t) ==
    /\ pc[t] = "set_body"
    /\ LET c == frame[t].call
           d == Decoration(c.f)
       IN  DoSet(CallNamespace(c), frame[t].cache_key, frame[t].result,
                 DecoratorTTL(d.decorator, d.ttl))
    /\ lock' = LockAfter(t, "set")
    /\ NestedReturn(t, frame[t].result)
    /\ UNCHANGED <<now, overlap, probe, USE_REDIS, serial, redis, extVars>>

\* what a thread does once it has made a call
NestedStep(t) ==
    NestedAcquire(t) \/ NestedGet(t) \/ NestedExec(t) \/ NestedSet(t)

NextNested ==
    \/ \E t \in Threads, c \in NestedCalls : NestedBegin(t, c)
    \/ \E t \in Threads : NestedAcquire(t)
    \/ \E t \in Threads : NestedGet(t)
    \/ \E t \in Threads : NestedExec(t)
    \/ \E t \in Threads : NestedSet(t)

SpecNested == Init /\ [][NextNested]_vars

\* the thread can take a step: it is in a body or in the wrapped function,
\* or it waits for a lock that is free (this is ENABLED <<NestedStep(t)>>_vars)
Runnable(t) ==
    \/ pc[t] \in {"get_body", "set_body", "miss"}
    \/ pc[t] \in {"get_acquire", "set_acquire"} /\ LockFree(lock)

\* weak fairness of the steps of each thread, WF_vars(NestedStep(t)) with
\* its enabling condition written out: the interpreter switches between the
\* runnable threads, so a thread that can go on does, and a wrapped function
\* returns
SpecNestedFair ==
    SpecNested /\ \A t \in Threads :
        []<>(~Runnable(t)) \/ []<><<NestedStep(t)>>_vars

---------------------------------------------------------------------------
(* Invalidation while wrapped calls are running: the clears of an
   invalidation are separate calls of the manager, and the steps of the
   wrappers of other threads come between them *)

\* invalidate_role_cache(): the namespaces it clears, in order
RoleNamespaces == <<NS_role_match, NS_roadmap>>

\* the two invalidation functions, as calls
Invalidations ==
    { InvalidationCall(<<"E1">>), Call("invalidate_role_cache", <<>>, <<>>) }

\* the namespaces an invalidation clears
InvalidatedNamespaces(c) ==
    IF c.f = "invalidate_employee_cache" THEN EmployeeNamespaces
    ELSE RoleNamespaces

IsInvalidation(c) == c.f \in {"invalidate_employee_cache", "invalidate_role_cache"}

\* history: the record of an invalidation in the log; returned is the set of
\* wrapped calls that had returned when it began, and ret becomes the length
\* of the log at the time it returns
InvalidationEntry(t, c) ==
    [thread |-> t, call |-> c, hit |-> FALSE, executed |-> FALSE,
     done |-> FALSE, ret |-> None, raised |-> FALSE, down |-> FALSE,
     returned |-> {i \in 1..Len(log) : log[i].done}]

\* a thread calls invalidate_employee_cache or invalidate_role_cache
InvalidateBegin(t, c) ==
    /\ pc[t] = "idle"
    /\ Len(log) < MaxCalls
    /\ pc' = [pc EXCEPT ![t] = "invalidating"]
    /\ frame' = [frame EXCEPT ![t] =
                    [call |-> c, result |-> None, idx |-> Len(log) + 1,
                     namespaces |-> InvalidatedNamespaces(c)]]
    /\ log' = Append(log, InvalidationEntry(t, c))
    /\ overlap' = (overlap \/ \E u \in Threads \ {t} : pc[u] # "idle")
    /\ UNCHANGED <<backendVars, now, otherVars, redis>>

\* cache_manager.clear(namespace) for the next namespace; after the last
\* one the invalidation returns
InvalidateClear(t) ==
    /\ pc[t] = "invalidating"
    /\ DoClear(Head(frame[t].namespaces))
    /\ IF Len(frame[t].namespaces) = 1
       THEN /\ pc' = [pc EXCEPT ![t] = "idle"]
            /\ frame' = [frame EXCEPT ![t] = NoFrame]
            /\ log' = [log EXCEPT ![frame[t].idx].done = TRUE,
                                  ![frame[t].idx].ret = Some(Len(log))]
       ELSE /\ frame' = [frame EXCEPT ![t].namespaces = Tail(@)]
            /\ UNCHANGED <<pc, log>>
    /\ UNCHANGED <<now, overlap, otherVars, redis>>

\* result = func(*args, **kwargs): the result is tagged with the call that
\* computes it and with the length of the log when the execution starts
RaceExec(t) ==
    /\ pc[t] = "miss"
    /\ frame' = [frame EXCEPT ![t].result =
                    Some([computed |-> frame[t].idx, started |-> Len(log)])]
    /\ pc' = [pc EXCEPT ![t] = "computed"]
    /\ log' = [log EXCEPT ![frame[t].idx].executed = TRUE]
    /\ UNCHANGED <<backendVars, now, overlap, otherVars, redis>>

\* a call in a namespace that both invalidations clear, and one in a
\* namespace that none clears
RaceCalls ==
    { Call("match_employee_to_roles", <<Employee1, Roles1>>, <<>>),
      Call("generate_embedding", <<create_profile_text(Employee1)>>, <<>>) }

NextRace ==
    \/ \E t \in Threads, c \in RaceCalls : WrapperGet(t, c)
    \/ \E t \in Threads : RaceExec(t)
    \/ \E t \in Threads : WrapperSet(t)
    \/ \E t \in Threads, c \in Invalidations : InvalidateBegin(t, c)
    \/ \E t \in Threads : InvalidateClear(t)

SpecRace == Init /\ [][NextRace]_vars

---------------------------------------------------------------------------
(* The Backend Interface called with any strings: namespaces and keys that
   hold the ':' separator *)

AnyNamespaces == {<<"a">>, <<"a", ":", "b">>}
AnyKeys       == {<<"c">>, <<"b", ":", "c">>}

NextIface ==
    \/ \E namespace \in AnyNamespaces, key \in AnyKeys : Get(namespace, key)
    \/ \E namespace \in AnyNamespaces, key \in AnyKeys, ttl \in TTLs :
          Set(namespace, key, Payload(nOps + 1), ttl)
    \/ \E namespace \in AnyNamespaces, key \in AnyKeys : Delete(namespace, key)
    \/ \E namespace \in AnyNamespaces \cup {<<>>} : Clear(namespace)
    \/ Tick

SpecIface == Init /\ [][NextIface]_vars

---------------------------------------------------------------------------
(* The in-memory backend given mutable objects (lists, dicts): a value is a
   reference to an object of the heap, and the content of the object is
   what the caller sees through the reference *)

\* the mutable objects the callers hold
Objects == {"o1", "o2"}

\* a mutation in place adds one to the content of the object
MaxMutations == 2

\* the value handed to set, or returned by get, when it is the object o
Ref(o) == Some([ref |-> o])

\* what a caller reads through the value v in the heap h
Deref(h, v) == h[v[1].ref]

InitAlias ==
    /\ InitBackend
    /\ InitMemo
    /\ heap = [o \in Objects |-> 0]
    /\ stored = <<>>
    /\ PREDICTIONS_CACHE = <<>>
    /\ ENABLE_CACHE_WARMING = FALSE
    /\ warm = NoWarm
    /\ probe = NoProbe
    /\ USE_REDIS = FALSE
    /\ redis = NoServer

\* cache_manager.set(namespace, key, obj, ttl): self.cache[cache_key] =
\* (value, expiry) keeps the object handed in, not a copy of it
SetObject(namespace, key, o, ttl) ==
    /\ Constructed
    /\ nOps < MaxOps
    /\ MgrSet(namespace, key, Ref(o), ttl)
    /\ stored' = (LRUCache_generate_key(namespace, key) :> heap[o]) @@ stored
    /\ UNCHANGED <<now, memoVars, probe, USE_REDIS, lock, serial, heap,
                   PREDICTIONS_CACHE, ENABLE_CACHE_WARMING, warm>>

\* a caller changes in place an object it handed to set or was returned by
\* get (matches[0]['career_narrative'] = narrative)
Mutate(o) ==
    /\ heap[o] < MaxMutations
    /\ \/ \E i \in 1..Len(backend.cache) : backend.cache[i].value = Ref(o)
       \/ lastOp.ret = Ref(o)
    /\ heap' = [heap EXCEPT ![o] = @ + 1]
    /\ UNCHANGED <<backendVars, now, memoVars, probe, USE_REDIS, lock, serial,
                   stored, PREDICTIONS_CACHE, ENABLE_CACHE_WARMING, warm, redis>>

NextAlias ==
    \/ \E namespace \in Namespaces, key \in Keys, o \in Objects, ttl \in TTLs :
          SetObject(namespace, key, o, ttl)
    \/ \E namespace \in Namespaces, key \in Keys : Get(namespace, key)
    \/ \E o \in Objects : Mutate(o)

SpecAlias == InitAlias /\ [][NextAlias]_vars

---------------------------------------------------------------------------
(* Key generation on its own: generate_cache_key applied to two argument
   sets *)

ArgSet(args, kwargs) == [args |-> args, kwargs |-> kwargs]

Dict_er == PyDict(<<[k |-> <<"employee_id">>, v |-> PyStr(<<"E1">>)],
                    [k |-> <<"role_id">>, v |-> PyInt(<<"1">>)]>>)
Dict_re == PyDict(<<[k |-> <<"role_id">>, v |-> PyInt(<<"1">>)],
                    [k |-> <<"employee_id">>, v |-> PyStr(<<"E1">>)]>>)

\* the argument sets generate_cache_key is applied to: mappings with their
\* keys in two orders (as an argument, inside a mapping inside a list, as a
\* keyword value, inside a tuple), keywords in two orders, and scalars
ArgSets ==
    { ArgSet(<<Dict_er>>, <<>>),
      ArgSet(<<Dict_re>>, <<>>),
      ArgSet(<<PyList(<<PyDict(<<[k |-> <<"model">>, v |-> Dict_er],
                                 [k |-> <<"top_k">>, v |-> PyInt(<<"1">>)]>>)>>)>>,
             <<>>),
      ArgSet(<<PyList(<<PyDict(<<[k |-> <<"top_k">>, v |-> PyInt(<<"1">>)],
                                 [k |-> <<"model">>, v |-> Dict_re]>>)>>)>>,
             <<>>),
      ArgSet(<<>>, <<[k |-> <<"model">>, v |-> PyStr(<<"m">>)],
                     [k |-> <<"scenarios">>, v |-> Dict_er]>>),
      ArgSet(<<>>, <<[k |-> <<"scenarios">>, v |-> Dict_re],
                     [k |-> <<"model">>, v |-> PyStr(<<"m">>)]>>),
      ArgSet(<<PyTuple(<<Dict_er>>)>>, <<>>),
      ArgSet(<<PyTuple(<<Dict_re>>)>>, <<>>),
      ArgSet(<<PyStr(<<"a", "|", "b">>)>>, <<>>),
      ArgSet(<<PyStr(<<"a">>), PyStr(<<"b">>)>>, <<>>),
      ArgSet(<<PyStr(<<"a">>)>>, <<>>),
      ArgSet(<<PyInt(<<"1">>)>>, <<>>),
      ArgSet(<<PyStr(<<"1">>)>>, <<>>),
      ArgSet(<<PyStr(<<"top_k", "=", "1">>)>>, <<>>),
      ArgSet(<<>>, <<[k |-> <<"top_k">>, v |-> PyInt(<<"1">>)]>>),
      ArgSet(<<>>, <<[k |-> <<"top_k">>, v |-> PyInt(<<"2">>)]>>) }

InitKey ==
    /\ InitBackend
    /\ InitMemo
    /\ InitExt
    /\ probe \in {[NoProbe EXCEPT !.a = x, !.b = y] : x, y \in ArgSets}
    /\ USE_REDIS = FALSE
    /\ redis = NoServer

\* generate_cache_key(*a.args, **a.kwargs) and the same for b
GenerateKeys ==
    /\ probe.key_a = None
    /\ probe' = [probe EXCEPT
                    !.key_a = Some(generate_cache_key(probe.a.args, probe.a.kwargs)),
                    !.key_b = Some(generate_cache_key(probe.b.args, probe.b.kwargs))]
    /\ UNCHANGED <<backendVars, now, memoVars, USE_REDIS, redis, lock, serial,
                   extVars>>

NextKey == GenerateKeys

SpecKey == InitKey /\ [][NextKey]_vars

---------------------------------------------------------------------------
(* Properties of the in-memory backend, checked under Spec *)

\* the step is a completed Cache Manager operation op
IsStep(op) == nOps' = nOps + 1 /\ lastOp'.op = op

\* the physical key of the operation recorded in o
OpKey(o) == LRUCache_generate_key(o.namespace, o.key)

\* history: the namespace the entry under physical key ck was set with
OwnerNamespace(ck) == (CHOOSE x \in owner : x.ck = ck).namespace

\* C4: LRU eviction. A set of a new key into a full map (the (N+1)th distinct
\* key) removes exactly the key whose last access (a set, or a get counted
\* as a hit) is the oldest, and counts one eviction; a key that the preceding
\* get has just read is not the one removed.
C4_LRUEviction ==
    [][ ( /\ IsStep("set")
          /\ Len(backend.cache) = backend.max_size
          /\ ~Contains(backend.cache, OpKey(lastOp')) )
        => /\ KeysOf(backend'.cache) =
                (KeysOf(backend.cache) \ {Head(recency)}) \cup {OpKey(lastOp')}
           /\ backend'.evictions = backend.evictions + 1
           /\ ( lastOp.op = "get" /\ lastOp.hit /\ backend.max_size > 1
                => Contains(backend'.cache, OpKey(lastOp)) )
      ]_vars

\* C4 witness: capacity 2; set a, set b, get a, set c has left a and c, with
\* one eviction (the payloads 1 and 4 are those of the first and fourth call)
C4_Witness ==
    /\ backend.max_size = 2
    /\ nOps = 4
    /\ lastOp.op = "set"
    /\ backend.hits = 1 /\ backend.misses = 0 /\ backend.evictions = 1
    /\ Len(backend.cache) = 2
    /\ backend.cache[1].value = Payload(1)
    /\ backend.cache[2].value = Payload(4)

\* C5: capacity invariant. The map never holds more than max_size entries,
\* whatever their namespaces and whether or not they have expired.
C5_Capacity == Len(backend.cache) <= backend.max_size

\* C5 witness: the map is full after a set that overflowed it
C5_Witness ==
    /\ lastOp.op = "set"
    /\ lastOp.before = backend.max_size
    /\ ~lastOp.found
    /\ Len(backend.cache) = backend.max_size
    /\ backend.evictions >= 1

\* C6: a set evicts at most once. A set of a new key into a full map removes one
\* entry, the least recently used, and counts one eviction; any other set
\* removes nothing and leaves evictions as it is; get, delete and clear never
\* change evictions.
C6_OneEvictionPerSet ==
    [][ /\ IsStep("set") =>
            IF ~Contains(backend.cache, OpKey(lastOp'))
               /\ Len(backend.cache) >= backend.max_size
            THEN /\ backend'.evictions = backend.evictions + 1
                 /\ Len(backend'.cache) = Len(backend.cache)
                 /\ KeysOf(backend.cache) \ KeysOf(backend'.cache)
                        = {Head(recency)}
            ELSE /\ backend'.evictions = backend.evictions
                 /\ KeysOf(backend'.cache)
                        = KeysOf(backend.cache) \cup {OpKey(lastOp')}
        /\ (IsStep("get") \/ IsStep("delete") \/ IsStep("clear"))
            => backend'.evictions = backend.evictions
      ]_vars

\* C6 witness: an expired entry has been purged by get after an eviction, and
\* the purge was not counted
C6_Witness ==
    /\ lastOp.op = "get" /\ lastOp.found /\ ~lastOp.hit
    /\ backend.evictions = 1

\* C7: hit/miss correctness. A get that directly follows set(ns, k, v, ttl)
\* returns v when no time has passed, and returns absent once the time is
\* later than the time of the set plus ttl.
C7_HitMiss ==
    [][ ( /\ IsStep("get")
          /\ lastOp.op = "set"
          /\ lastOp.namespace = lastOp'.namespace
          /\ lastOp.key = lastOp'.key )
        => /\ now = lastOp.at => lastOp'.ret = lastOp.value
           /\ (Truthy(lastOp.ttl) /\ now > lastOp.at + lastOp.ttl[1])
                => lastOp'.ret = None
      ]_vars

\* C7 witness: set(ns, k, v, ttl = 1) at time 0 and a get at once that
\* returned v
C7_Witness ==
    /\ nOps = 2
    /\ lastOp.op = "get" /\ lastOp.hit
    /\ lastOp.ret = Payload(1)
    /\ now = 0
    /\ Len(backend.cache) = 1
    /\ backend.cache[1].expiry = Some(1)

\* C8: lazy expiry. A get returns a value only from an entry that is present
\* and whose expiry is not earlier than now; a get of a present entry with
\* now > expiry deletes the entry, counts one miss and no hit and returns
\* absent; a get of an absent key (as is the second get) leaves the map alone,
\* counts one miss and returns absent.
C8_LazyExpiry ==
    [][ IsStep("get") =>
          LET ck == OpKey(lastOp') IN
          /\ lastOp'.ret # None =>
                /\ Contains(backend.cache, ck)
                /\ ~( Truthy(Entry(backend.cache, ck).expiry)
                      /\ Entry(backend.cache, ck).expiry[1] < now )
                /\ lastOp'.ret = Entry(backend.cache, ck).value
          /\ ( /\ Contains(backend.cache, ck)
               /\ Truthy(Entry(backend.cache, ck).expiry)
               /\ now > Entry(backend.cache, ck).expiry[1] )
             => /\ backend'.cache = Del(backend.cache, ck)
                /\ backend'.misses = backend.misses + 1
                /\ backend'.hits = backend.hits
                /\ lastOp'.ret = None
          /\ ~Contains(backend.cache, ck)
             => /\ backend'.cache = backend.cache
                /\ backend'.misses = backend.misses + 1
                /\ backend'.hits = backend.hits
                /\ lastOp'.ret = None
      ]_vars

\* C8 witness: a get found an expired entry, and the map is empty after it
C8_Witness ==
    /\ lastOp.op = "get" /\ lastOp.found /\ ~lastOp.hit
    /\ lastOp.ret = None
    /\ lastOp.before = 1
    /\ backend.cache = <<>>
    /\ backend.misses = 1 /\ backend.hits = 0

\* C9: clear(ns) removes exactly the entries that were set under ns, keeps
\* the others in their order and leaves the three counters alone; clear()
\* empties the map.
C9_ClearNamespace ==
    [][ IsStep("clear") =>
          /\ backend'.cache =
                IF lastOp'.namespace # <<>>
                THEN SelectSeq(backend.cache,
                        LAMBDA e : OwnerNamespace(e.key) # lastOp'.namespace)
                ELSE <<>>
          /\ backend'.hits = backend.hits
          /\ backend'.misses = backend.misses
          /\ backend'.evictions = backend.evictions
      ]_vars

\* C9 witness: clear("role_match") removed one of two entries and left the
\* one of "embedding"
C9_Witness ==
    /\ lastOp.op = "clear"
    /\ lastOp.namespace = NS_role_match
    /\ lastOp.before = 2
    /\ Len(backend.cache) = 1
    /\ OwnerNamespace(backend.cache[1].key) = NS_embedding

\* C19: the counters are running totals. A step lowers hits, misses or
\* evictions only if it is reset_cache_stats, which sets the three to 0: no
\* get, set, delete or clear lowers any of them.
C19_RunningTotals ==
    [][ /\ ( \/ backend'.hits < backend.hits
             \/ backend'.misses < backend.misses
             \/ backend'.evictions < backend.evictions )
            => /\ IsStep("reset_cache_stats")
               /\ backend'.hits = 0
               /\ backend'.misses = 0
               /\ backend'.evictions = 0
        /\ (IsStep("get") \/ IsStep("set") \/ IsStep("delete") \/ IsStep("clear"))
            => /\ backend'.hits >= backend.hits
               /\ backend'.misses >= backend.misses
               /\ backend'.evictions >= backend.evictions
      ]_vars

\* C19 witness: the counters of a hit and of a miss are still there after
\* clear() has emptied the map
C19_Witness ==
    /\ lastOp.op = "clear" /\ lastOp.namespace = <<>>
    /\ lastOp.before = 1
    /\ backend.cache = <<>>
    /\ backend.hits = 1 /\ backend.misses = 1

\* C24: set overwrites. A set on a key that is present leaves, under that
\* key, the new value with the expiry computed from the new ttl at the time
\* of this set (None when the ttl is None), whatever the old expiry was; the
\* entry is the most recently used (the last of the map), the other entries
\* keep their order, and the number of entries and the evictions are
\* unchanged.
C24_SetOverwrites ==
    [][ ( /\ IsStep("set")
          /\ Contains(backend.cache, OpKey(lastOp')) )
        => LET ck == OpKey(lastOp')
               e  == Entry(backend'.cache, ck)
           IN  /\ Contains(backend'.cache, ck)
               /\ e.value = lastOp'.value
               /\ e.expiry = IF Truthy(lastOp'.ttl)
                             THEN Some(now + lastOp'.ttl[1]) ELSE None
               /\ backend'.cache[Len(backend'.cache)].key = ck
               /\ Del(backend'.cache, ck) = Del(backend.cache, ck)
               /\ Len(backend'.cache) = Len(backend.cache)
               /\ backend'.evictions = backend.evictions
      ]_vars

\* C24 witness: the older of two entries, set at time 0, has been set again
\* at time 1 with ttl 1: it is now the last, with the third payload and the
\* expiry 2
C24_Witness ==
    /\ nOps = 3 /\ now = 1
    /\ lastOp.op = "set" /\ lastOp.found /\ lastOp.before = 2 /\ lastOp.at = 1
    /\ Len(backend.cache) = 2
    /\ backend.cache[1].value = Payload(2)
    /\ backend.cache[2].value = Payload(3)
    /\ backend.cache[2].expiry = Some(2)

---------------------------------------------------------------------------
(* Properties of the invalidation utilities, checked under SpecInval *)

\* C25: invalidate_employee_cache(employee_id) invalidates every entry of
\* that employee. A wrapped call made for the employee after the
\* invalidation has returned is never served a result that was computed
\* before it: the value it returns was computed by a call that began after
\* the invalidation.
C25_InvalidateEmployee ==
    \A j \in 1..Len(log) :
        log[j].call.f = "invalidate_employee_cache" =>
            \A i \in (j + 1)..Len(log) :
                ( /\ log[i].call.f # "invalidate_employee_cache"
                  /\ log[i].done /\ log[i].ret # None
                  /\ EmployeeOf(log[i].call) = log[j].call.args[1].val )
                    => log[i].ret[1].computed > j

\* the map c without the entries that were set under one of the namespaces
Without(c, namespaces) ==
    SelectSeq(c, LAMBDA e :
        \A i \in 1..Len(namespaces) : OwnerNamespace(e.key) # namespaces[i])

\* C26: invalidation is a whole-namespace clear with a fixed footprint.
\* invalidate_employee_cache removes every entry set under role_match,
\* leadership, roadmap or ai_response and no other: the entries of
\* embedding stay, in their order. invalidate_role_cache removes every entry
\* set under role_match or roadmap and no other. Neither changes hits,
\* misses or evictions.
C26_InvalidationFootprint ==
    [][ /\ IsStep("invalidate_employee_cache") =>
              /\ backend'.cache =
                    Without(backend.cache,
                            <<NS_role_match, NS_leadership, NS_roadmap,
                              NS_ai_response>>)
              /\ backend' = [backend EXCEPT !.cache = backend'.cache]
        /\ IsStep("invalidate_role_cache") =>
              /\ backend'.cache =
                    Without(backend.cache, <<NS_role_match, NS_roadmap>>)
              /\ backend' = [backend EXCEPT !.cache = backend'.cache]
      ]_vars

\* C26 witness: invalidate_employee_cache has left the entry of embedding
\* and removed the one of leadership; the hit counted before is still
\* counted
C26_Witness ==
    /\ lastOp.op = "invalidate_employee_cache"
    /\ lastOp.before = 2
    /\ Len(backend.cache) = 1
    /\ OwnerNamespace(backend.cache[1].key) = NS_embedding
    /\ backend.hits = 1
    /\ nOps = 4

---------------------------------------------------------------------------
(* Properties of the entries' ownership, checked under SpecAlias *)

\* C22: a cache entry is owned by the backend alone. A get that returns a
\* value returns the content the value had when it was set under that key:
\* no mutation in place, of the object handed to set or of an object
\* returned by an earlier get, shows in what a later get returns.
C22_ExclusiveOwnership ==
    [][ (IsStep("get") /\ lastOp'.ret # None)
            => Deref(heap', lastOp'.ret) = stored[OpKey(lastOp')]
      ]_vars

---------------------------------------------------------------------------
(* Properties of the in-memory backend called from several threads, checked
   under SpecLock *)

\* the threads that are inside the body of a method
InBody == {t \in Threads : pc[t] \notin {"idle", "acquire"}}

\* C18: the four operations are serialized by the lock. At most one thread is
\* inside the body of a method, and it holds the lock; when a method returns,
\* the backend (map in its recency order, and counters) is what the methods
\* completed so far give when run one at a time in the order they took the
\* lock, and the value returned is the one that sequential run returns.
C18_Serialized ==
    [][ /\ Cardinality(InBody) <= 1
        /\ \A t \in InBody : lock = Some(t)
        /\ \A t \in Threads :
              (pc[t] = "release" /\ pc'[t] = "idle")
                  => /\ backend' = serial'
                     /\ frame[t].ret = Atomic(serial, frame[t]).ret
      ]_vars

\* C18 witness: a get by one thread has found its key and is about to count
\* the hit while the other thread waits for the lock, after a set has
\* completed
C18_Witness ==
    /\ pc["t1"] = "count_load" /\ frame["t1"].counter = "hits"
    /\ pc["t2"] = "acquire"
    /\ lock = Some("t1")
    /\ Len(serial.cache) = 1
    /\ nOps = 3

---------------------------------------------------------------------------
(* Properties of the decorators, checked under SpecMemo *)

\* the wrapped calls that executed their function
Executed == {i \in 1..Len(log) : log[i].executed}

\* C1: memoization transparency. In a run whose wrapped calls do not overlap:
\* a call whose get was counted as a hit does not execute the wrapped function
\* and a call whose get was a miss executes it; of two consecutive calls with
\* identical arguments the second does not execute it; the first two calls of
\* a function, made with different arguments, both execute it.
C1_MemoizationTransparency ==
    ~overlap =>
        /\ \A i \in 1..Len(log) : log[i].done =>
                (log[i].hit <=> ~log[i].executed)
        /\ \A i \in 2..Len(log) :
                (log[i].done /\ log[i - 1].call = log[i].call)
                    => ~log[i].executed
        /\ ( /\ Len(log) >= 2
             /\ log[1].done /\ log[2].done
             /\ log[1].call.f = log[2].call.f
             /\ log[1].call # log[2].call )
           => (log[1].executed /\ log[2].executed)

\* C2: at most one execution per argument set and TTL window. When all the
\* wrapped calls of a run, from whatever threads, have the same function and
\* arguments, the function body has run at most once.
C2_AtMostOncePerWindow ==
    (\A i, j \in 1..Len(log) : log[i].call = log[j].call)
        => Cardinality(Executed) <= 1

\* C3: a cache key identifies one (namespace, logical call) pair. Every value
\* returned by a wrapped call was computed by the function that was called.
C3_KeyIdentifiesProducer ==
    \A i \in 1..Len(log) :
        (log[i].done /\ log[i].ret # None)
            => log[i].ret[1].f = log[i].call.f

---------------------------------------------------------------------------
(* Properties of the Backend Interface, checked under SpecIface *)

\* C10: the physical key tells (namespace, key) pairs apart, also when the
\* strings hold ':'. A get returns only a value that was set with its own
\* namespace and key, and clear(ns) removes no entry that was set under a
\* namespace other than ns.
C10_PhysicalKeyIsolation ==
    [][ /\ (IsStep("get") /\ lastOp'.ret # None)
            => \A x \in owner :
                  x.ck = OpKey(lastOp')
                      => /\ x.namespace = lastOp'.namespace
                         /\ x.key = lastOp'.key
        /\ (IsStep("clear") /\ lastOp'.namespace # <<>>)
            => \A x \in owner :
                  x.namespace # lastOp'.namespace
                      => Contains(backend'.cache, x.ck)
      ]_vars

---------------------------------------------------------------------------
(* Properties of key generation, checked under SpecKey *)

\* Python's == on the values of the model: values of different types are
\* unequal, lists and tuples are compared item by item, dicts as mappings
RECURSIVE PyEq(_, _)
PyEq(x, y) ==
    IF x.type # y.type THEN FALSE
    ELSE IF x.type \in {"list", "tuple"}
    THEN /\ Len(x.val) = Len(y.val)
         /\ \A i \in 1..Len(x.val) : PyEq(x.val[i], y.val[i])
    ELSE IF x.type = "dict"
    THEN /\ Len(x.val) = Len(y.val)
         /\ \A i \in 1..Len(x.val) : \E j \in 1..Len(y.val) :
                x.val[i].k = y.val[j].k /\ PyEq(x.val[i].v, y.val[j].v)
    ELSE x.val = y.val

\* two argument sets are equal in value: the same positional values in the
\* same positions and the same keyword arguments, in whatever order
EqualInValue(a, b) ==
    /\ Len(a.args) = Len(b.args)
    /\ \A i \in 1..Len(a.args) : PyEq(a.args[i], b.args[i])
    /\ PyEq(PyDict(a.kwargs), PyDict(b.kwargs))

\* C11: key determinism and order-independence. Two argument sets that are
\* equal in value (they differ at most in the order of the keys of mappings,
\* at any depth, and in the order of the keyword arguments) get the same key.
C11_KeyOrderIndependence ==
    (probe.key_a # None /\ EqualInValue(probe.a, probe.b))
        => probe.key_a = probe.key_b

\* C12: key distinctness. Two argument sets that are not equal in value get
\* different canonical texts (the digest of the model is one-to-one, so the
\* texts differ exactly when the keys do).
C12_KeyDistinctness ==
    (probe.key_a # None /\ ~EqualInValue(probe.a, probe.b))
        => probe.key_a # probe.key_b

---------------------------------------------------------------------------
(* Properties of wrapped calls with arguments that cannot be canonicalized,
   checked under SpecObject *)

\* some argument of the call is, or holds, a non-serializable object
HoldsObject(c) ==
    \/ \E i \in 1..Len(c.args) : json_raises(c.args[i])
    \/ \E i \in 1..Len(c.kwargs) : json_raises(c.kwargs[i].v)

\* C13: key-generation failure. Every wrapped call with an argument that is or
\* holds a non-serializable object has raised to its caller, without reading
\* the cache, executing the wrapped function or storing anything: every entry
\* of the map was stored by a call whose arguments hold no such object.
C13_KeyGenerationFailure ==
    /\ \A i \in 1..Len(log) :
          HoldsObject(log[i].call)
              => (log[i].raised /\ ~log[i].executed /\ log[i].ret = None)
    /\ \A i \in 1..Len(backend.cache) :
          \E c \in ObjectCalls :
              /\ ~HoldsObject(c)
              /\ backend.cache[i].key =
                    LRUCache_generate_key(CallNamespace(c), CallKey(c))

---------------------------------------------------------------------------
(* Properties of the Cache Manager and its backends, checked under
   SpecRedis *)

\* C14: fallback at construction. Constructing the Cache Manager raises no
\* exception and yields a backend; when Redis is requested and its server does
\* not answer the ping, the backend is the empty in-memory store of the
\* configured capacity, and on it a get that directly follows a set of the
\* same key returns the value set.
C14_FallbackAtConstruction ==
    [][ /\ (~Constructed /\ lastOp'.op = "construct")
            => /\ ~lastOp'.raised
               /\ Constructed'
               /\ (USE_REDIS /\ ~redis.up) => backend' = LRUCache_init(MaxSize)
        /\ ( /\ USE_REDIS /\ backend.class = "LRUCache"
             /\ IsStep("get")
             /\ lastOp.op = "set"
             /\ lastOp.namespace = lastOp'.namespace
             /\ lastOp.key = lastOp'.key
             /\ now = lastOp.at )
            => lastOp'.ret = lastOp.value
      ]_vars

\* C14 witness: Redis was requested, the backend is the in-memory store, and
\* a get has returned the value of the set before it
C14_Witness ==
    /\ USE_REDIS
    /\ backend.class = "LRUCache"
    /\ backend.max_size = MaxSize
    /\ nOps = 2
    /\ lastOp.op = "get" /\ lastOp.hit
    /\ lastOp.ret = Payload(1)

\* C15: one backend for the life of the manager. Once constructed, no step
\* (get, set, delete, clear, statistics, invalidation, reset of the counters,
\* the server failing or recovering) changes the class of the backend, nor
\* the capacity of an in-memory backend.
C15_BackendNeverReplaced ==
    [][ Constructed =>
          /\ backend'.class = backend.class
          /\ backend.class = "LRUCache" => backend'.max_size = backend.max_size
      ]_vars

\* C15 witness: the backend is still the RedisCache after a get that failed
\* (the server holds the key but does not answer)
C15_Witness ==
    /\ backend.class = "RedisCache"
    /\ ~redis.up
    /\ lastOp.op = "get" /\ lastOp.found /\ lastOp.ret = None
    /\ backend.misses = 1

\* C17: serialization failure on a Redis set. A set whose value cannot be
\* pickled raises nothing and leaves the server (every key, value and expiry)
\* and the backend object exactly as they were.
C17_SerializationFailure ==
    [][ ( /\ IsStep("set")
          /\ backend.class = "RedisCache"
          /\ pickle_raises(lastOp'.value) )
        => /\ ~lastOp'.raised
           /\ redis' = redis
           /\ backend' = backend
      ]_vars

\* C17 witness: the server answers and holds the key with the payload of the
\* first call, after a set of an unpicklable value to that key
C17_Witness ==
    /\ backend.class = "RedisCache"
    /\ redis.up
    /\ lastOp.op = "set" /\ lastOp.found
    /\ lastOp.value = Unpicklable
    /\ Len(redis.data) = 1
    /\ pickle_loads(redis.data[1].value) = Payload(1)

\* C20: get_cache_statistics names the active backend. In the dictionary it
\* returns, the 'type' field and config.backend both name the class of the
\* backend object the manager delegates to.
C20_StatisticsNameBackend ==
    lastOp.op = "get_cache_statistics" =>
        LET result == lastOp.ret[1]
            active == IF backend.class = "RedisCache" THEN "redis"
                      ELSE "in-memory"
        IN  /\ result.stats.type = active
            /\ result.config.backend = active

\* the entries the backend holds: the ordered map of the LRUCache, or the
\* keys of the server that have not expired
Entries(b, server, t) ==
    IF b.class = "RedisCache" THEN Live(server.data, t) ELSE b.cache

\* the physical key the backend b gives to (namespace, key)
PhysicalKey(b, namespace, key) ==
    IF b.class = "RedisCache" THEN RedisCache_generate_key(namespace, key)
    ELSE LRUCache_generate_key(namespace, key)

\* the store of the backend answers: always for the LRUCache
Answers == backend.class = "LRUCache" \/ redis.up

C21_StatsHoldCounters ==
    lastOp.op = "get_cache_statistics" =>
        LET stats == lastOp.ret[1].stats
        IN  /\ {"hits", "misses"} \subseteq DOMAIN stats
            /\ stats.hits = backend.hits
            /\ stats.misses = backend.misses

---------------------------------------------------------------------------
(* Properties of wrapped calls on the Redis backend, checked under
   SpecRedisMemo *)

\* C16: Redis I/O failures are not fatal. While the server does not answer, a
\* get returns absent and is counted as a miss, a set changes nothing, and no
\* exception leaves the backend; a wrapped call whose get failed goes on to
\* execute the wrapped function, and returns its result to the caller.
C16_IOFailureNotFatal ==
    [][ /\ (IsStep("get") /\ ~redis.up)
            => /\ lastOp'.ret = None /\ ~lastOp'.raised
               /\ backend'.misses = backend.misses + 1
               /\ backend'.hits = backend.hits
               /\ redis' = redis
        /\ (IsStep("set") /\ ~redis.up)
            => /\ ~lastOp'.raised
               /\ redis' = redis
               /\ backend' = backend
        /\ \A t \in Threads :
            /\ (pc[t] = "idle" /\ pc'[t] # pc[t] /\ ~redis.up)
                => pc'[t] = "miss"
            /\ (pc[t] = "idle" /\ IsStep("get") /\ ~redis.up
                    /\ log'[Len(log')].thread = t)
                => (pc'[t] = "miss" /\ ~log'[Len(log')].raised)
            /\ (pc[t] = "computed" /\ pc'[t] = "idle" /\ log[frame[t].idx].down)
                => /\ log'[frame[t].idx].executed
                   /\ ~log'[frame[t].idx].raised
                   /\ log'[frame[t].idx].ret = frame[t].result
      ]_vars

\* C16 witness: a wrapped call that found the server failing, at its get and
\* at its set, has executed the function and returned its result
C16_Witness ==
    /\ ~redis.up
    /\ redis.data = <<>>
    /\ lastOp.op = "set"
    /\ Len(log) = 1
    /\ log[1].down /\ log[1].executed /\ log[1].done
    /\ log[1].ret = Some(log[1].call)


---------------------------------------------------------------------------
(* Properties under SpecWarm *)

---------------------------------------------------------------------------
(* Properties under SpecDecorated *)

\* C28: TTL selection by the decorators. At the set of a wrapped call the
\* result goes to the manager under the namespace of the decorator and with
\* the TTL override given to the decorator factory when one was given,
\* otherwise with the configured default of that namespace; the get of a
\* wrapped call reads under the namespace of the decorator.
C28_TTLSelection ==
    [][ \A t \in Threads :
          /\ (pc[t] = "computed" /\ pc'[t] = "idle") =>
                LET d == Decoration(frame[t].call.f)
                IN  /\ lastOp'.op = "set"
                    /\ lastOp'.namespace = DecoratorNamespace(d.decorator)
                    /\ lastOp'.ttl = IF d.ttl # None THEN d.ttl
                                     ELSE Some(DecoratorDefaultTTL(d.decorator))
          /\ (pc[t] = "idle" /\ Len(log') > Len(log)) =>
                /\ lastOp'.op = "get"
                /\ lastOp'.namespace =
                      DecoratorNamespace(Decoration(log'[Len(log')].call.f).decorator) ]_vars


\* C29: results of generate_career_narrative are cached for 30 minutes by
\* default. The entry that the set of a narrative call stores expires 1800
\* seconds after the time of the set.
C29_NarrativeThirtyMinutes ==
    [][ \A t \in Threads :
          (/\ pc[t] = "computed"
           /\ pc'[t] = "idle"
           /\ frame[t].call.f = "generate_career_narrative") =>
             LET c  == frame[t].call
                 ck == LRUCache_generate_key(CallNamespace(c), CallKey(c))
             IN  /\ Contains(backend'.cache, ck)
                 /\ Entry(backend'.cache, ck).expiry = Some(now + TTL_NARRATIVE) ]_vars


---------------------------------------------------------------------------
(* Hit accounting and execution, under SpecMemo *)

\* C30: hit accounting agrees with the execution of the wrapped function.
\* For every wrapped call that has returned, the function was executed if
\* and only if the get of that call was counted as a miss by the backend; a
\* call whose arguments were used before, the function having returned None
\* then, is among them.
C30_HitsAgreeWithExecution ==
    \A i \in 1..Len(log) :
        log[i].done => (log[i].executed <=> ~log[i].hit)


---------------------------------------------------------------------------
(* Properties under SpecCount *)

\* C31: every get increments exactly one of the two counters by exactly one.
\* On both backends a completed get leaves hits + misses one higher than it
\* was, a reset leaves it at 0 and no other operation changes it, so that
\* hits + misses is the number of gets completed since the last reset; a
\* get of a stored value that cannot be deserialized and a get while the
\* store does not answer are among them.
C31_OneCounterPerGet ==
    [][ Constructed =>
          /\ IsStep("get") =>
                /\ backend'.hits + backend'.misses
                      = backend.hits + backend.misses + 1
                /\ backend'.hits >= backend.hits
                /\ backend'.misses >= backend.misses
          /\ IsStep("reset_cache_stats") =>
                backend'.hits + backend'.misses = 0
          /\ (~IsStep("get") /\ ~IsStep("reset_cache_stats")) =>
                backend'.hits + backend'.misses
                      = backend.hits + backend.misses ]_vars


---------------------------------------------------------------------------
(* Properties under SpecNestedFair *)

\* C32: the backend lock is never held while a wrapped function executes.
\* The thread that holds the lock is inside the body of LRUCache.get or
\* LRUCache.set, and every wrapped call a thread has made returns: also a
\* call of match_employee_to_roles, whose body calls the wrapped
\* generate_embedding, with the other thread making wrapped calls too.
C32_LockNotHeldInProducer ==
    /\ [](lock # None => pc[lock[1]] \in {"get_body", "set_body"})
    /\ \A t \in Threads : (pc[t] # "idle") ~> (pc[t] = "idle")

\* a thread is inside match_employee_to_roles, in the set of the wrapper of
\* generate_embedding and with the lock, and the other thread waits for it
C32_Witness ==
    \E t \in Threads, u \in Threads :
        /\ t # u
        /\ pc[t] = "set_body"
        /\ lock = Some(t)
        /\ frame[t].outer # None
        /\ frame[t].outer[1].call.f = "match_employee_to_roles"
        /\ pc[u] = "get_acquire"


---------------------------------------------------------------------------
(* Properties under SpecRace *)

\* the wrapped calls in the namespace role_match, which both invalidations
\* clear, that began after invalidation j returned and have returned a value
LaterCalls(j) ==
    {i \in (log[j].ret[1] + 1)..Len(log) :
        /\ log[i].call.f = "match_employee_to_roles"
        /\ log[i].done
        /\ log[i].ret # None}

ReturnedInvalidations ==
    {j \in 1..Len(log) : IsInvalidation(log[j].call) /\ log[j].done}

---------------------------------------------------------------------------
(* Properties under SpecRaise *)

\* the entries of the map c that have not expired at time t
LiveEntries(c, t) ==
    {c[i] : i \in {n \in 1..Len(c) :
                      ~(c[n].expiry # None /\ t > c[n].expiry[1])}}

\* C34: if the wrapped function raises, the decorator propagates the
\* exception and stores nothing. The step in which the function raises ends
\* the call with the exception and leaves the backend as it was; the get of
\* that call was counted as a miss, one miss and no hit, and left the
\* unexpired entries as they were; and the next call with the same
\* arguments executes the function again.
C34_RaiseStoresNothing ==
    [][ /\ (pc["t1"] = "miss" /\ pc'["t1"] = "idle") =>
              /\ log'[frame["t1"].idx].raised
              /\ log'[frame["t1"].idx].ret = None
              /\ backend' = backend
              /\ lastOp.op = "get"
              /\ ~lastOp.hit
        /\ (pc["t1"] = "idle" /\ pc'["t1"] = "miss") =>
              LiveEntries(backend'.cache, now) = LiveEntries(backend.cache, now)
        /\ \A i \in 1..(Len(log') - 1) :
              ( /\ log'[i].raised
                /\ log'[i + 1].call = log'[i].call
                /\ log'[i + 1].done )
                  => log'[i + 1].executed ]_vars


---------------------------------------------------------------------------
(* Properties under SpecNoExpiry *)

\* C35: an entry stored with ttl None or ttl 0 has no expiry. A set with
\* such a ttl stores the entry without an expiry; a get of an entry without
\* an expiry is a hit and returns its value, at every time; such an entry
\* stays in the map through every step but a set of its key, a set that
\* evicts, a delete of its key and a clear; and a decorator given a ttl of 0
\* stores with the default TTL of its namespace.
C35_NoExpiryWithoutTTL ==
    [][ /\ (IsStep("set") /\ ~Truthy(lastOp'.ttl)) =>
              Entry(backend'.cache, OpKey(lastOp')).expiry = None
        /\ ( /\ IsStep("get")
             /\ Contains(backend.cache, OpKey(lastOp'))
             /\ Entry(backend.cache, OpKey(lastOp')).expiry = None ) =>
              /\ lastOp'.hit
              /\ lastOp'.ret = Entry(backend.cache, OpKey(lastOp')).value
        /\ \A i \in 1..Len(backend.cache) :
              backend.cache[i].expiry = None =>
                 \/ \E j \in 1..Len(backend'.cache) :
                       backend'.cache[j] = backend.cache[i]
                 \/ /\ IsStep("set")
                    /\ \/ OpKey(lastOp') = backend.cache[i].key
                       \/ backend'.evictions = backend.evictions + 1
                 \/ IsStep("delete") /\ OpKey(lastOp') = backend.cache[i].key
                 \/ IsStep("clear")
        /\ ( /\ pc["t1"] = "computed"
             /\ pc'["t1"] = "idle"
             /\ Decoration(frame["t1"].call.f).ttl = Some(0) ) =>
              Entry(backend'.cache, OpKey(lastOp')).expiry =
                  Some(now + DecoratorDefaultTTL(
                                 Decoration(frame["t1"].call.f).decorator)) ]_vars

\* an entry stored with a ttl of 0 at time 0 is returned at the last time
C35_Witness ==
    /\ lastOp.op = "get"
    /\ lastOp.hit
    /\ lastOp.at = MaxTime
    /\ lastOp.ret = Stamp(Some(0), 0)


---------------------------------------------------------------------------
(* Properties under SpecShared *)

\* C36: the Redis backend touches only its own keys. No operation of the
\* backend removes or changes an entry of the database whose key does not
\* begin with 'compass:', and every entry an operation adds has a key that
\* begins with it.
C36_OnlyOwnKeys ==
    [][ ForeignEntries(redis'.data) = ForeignEntries(redis.data) ]_vars


---------------------------------------------------------------------------
(* Properties under SpecCapacity *)

Expired(e, t) == e.expiry # None /\ t > e.expiry[1]

\* C37: the capacity bound is global. A set evicts exactly when its key is
\* new and the map holds max_size entries, counted over all namespaces and
\* with the expired entries that no get has purged; the entry evicted is
\* the one whose last access is the oldest of the whole map, whatever its
\* namespace and its expiry; a set removes no other entry, expired or not.
C37_GlobalCapacity ==
    [][ IsStep("set") =>
          LET ck   == OpKey(lastOp')
              full == /\ ~Contains(backend.cache, ck)
                      /\ Len(backend.cache) = backend.max_size
          IN  /\ Len(backend'.cache) <= backend.max_size
              /\ full <=> backend'.evictions = backend.evictions + 1
              /\ ~full => /\ backend'.evictions = backend.evictions
                          /\ KeysOf(backend'.cache) =
                                 KeysOf(backend.cache) \cup {ck}
              /\ full => KeysOf(backend'.cache) =
                             (KeysOf(backend.cache) \ {Head(recency)}) \cup {ck}
      ]_vars

\* a set has just evicted a live entry of one namespace, and an expired
\* entry of the other namespace is still in the map
C37_Witness ==
    /\ lastOp.op = "set"
    /\ lastOp.at = now
    /\ ~lastOp.found
    /\ lastOp.before = backend.max_size
    /\ Len(stored) = 1
    /\ ~Expired(stored[1], now)
    /\ \E i \in 1..Len(backend.cache) :
          /\ Expired(backend.cache[i], now)
          /\ backend.cache[i].key[1] # stored[1].key[1]


---------------------------------------------------------------------------
(* Properties under SpecReset *)

\* C38: reset_cache_stats sets the three counters to 0, leaves the entries
\* and their order as they are, and is atomic with respect to the backend
\* operations of other threads. The statements of the reset leave the map
\* unchanged; and once the reset has returned and no thread is inside an
\* operation, no counter is above what the operations that ended after the
\* reset began have counted (serial: those operations, one at a time, from
\* counters at 0).
C38_ResetAtomic ==
    /\ [][ \A t \in Threads :
              pc[t] \in {"reset_hits", "reset_misses", "reset_evictions"}
              /\ pc'[t] # pc[t]
                 => backend'.cache = backend.cache ]_vars
    /\ []( ( /\ \A t \in Threads : pc[t] = "idle"
             /\ lastOp.op = "reset_cache_stats" )
           => /\ backend.hits <= serial.hits
              /\ backend.misses <= serial.misses
              /\ backend.evictions <= serial.evictions )


---------------------------------------------------------------------------
(* What get returns, under Spec *)

\* C39: LRUCache.get returns the pair (value, expiry_time) for an entry that
\* is present and has not expired, and None otherwise; CacheManager.get
\* (whose result is lastOp'.ret) returns the stored value, and None when
\* LRUCache.get returns None.
C39_GetReturnsPair ==
    [][ IsStep("get") =>
          LET ck   == OpKey(lastOp')
              r    == LRUCache_get(backend, now, lastOp'.namespace, lastOp'.key)
              live == /\ Contains(backend.cache, ck)
                      /\ ~Expired(Entry(backend.cache, ck), now)
          IN  /\ live => /\ r.ret = << Entry(backend.cache, ck).value,
                                       Entry(backend.cache, ck).expiry >>
                         /\ lastOp'.ret = Entry(backend.cache, ck).value
              /\ ~live => /\ r.ret = None
                          /\ lastOp'.ret = None ]_vars

====
